---- MODULE Spec2Model ----
(***************************************************************************)
(* V-See (Windows): the lazy folder tree (FolderTree component), its       *)
(* path-based restore walk, and the image display fallback chain of the    *)
(* preview pane, the viewer window and the thumbnail grid; the displays of *)
(* a video; the resolution of a directory listing into the files of the    *)
(* grid and of the playable list; and the Photos tab of the main window    *)
(* with the keys it persists.                                              *)
(*                                                                         *)
(* Scheduling: one JavaScript thread.  A step of the model is one task of  *)
(* the event loop: a DOM event handler, or the continuation of an awaited  *)
(* invoke() together with every microtask it schedules.                    *)
(***************************************************************************)
EXTENDS Integers, Sequences, FiniteSets, TLC

(***************************************************************************)
(* Bounds of the model.                                                    *)
(***************************************************************************)
\* calls of loadRoots (the initial one and the refreshes) and of list_directory
\* in one behaviour, together
MaxCalls == 3
\* read_file_as_data_url requests followed for one display of one image
MaxDataReq == 3

(***************************************************************************)
(* Strings are sequences of one-character strings.                         *)
(***************************************************************************)
BS == "\\"

RECURSIVE TrimLeft(_)
TrimLeft(s) == IF s # <<>> /\ Head(s) = " " THEN TrimLeft(Tail(s)) ELSE s

RECURSIVE TrimRight(_)
TrimRight(s) ==
    IF s # <<>> /\ s[Len(s)] = " " THEN TrimRight(SubSeq(s, 1, Len(s) - 1)) ELSE s

\* String.prototype.trim
trim(s) == TrimRight(TrimLeft(s))

\* .replace(/\//g, '\\')
slashesToBackslashes(s) == [i \in 1..Len(s) |-> IF s[i] = "/" THEN BS ELSE s[i]]

\* .replace(/\\+$/, '')
RECURSIVE stripTrailingBackslashes(_)
stripTrailingBackslashes(s) ==
    IF s # <<>> /\ s[Len(s)] = BS
    THEN stripTrailingBackslashes(SubSeq(s, 1, Len(s) - 1))
    ELSE s

normalizePath(p) == stripTrailingBackslashes(slashesToBackslashes(trim(p)))

pathNorm(p) == stripTrailingBackslashes(slashesToBackslashes(trim(p)))

lowerChar(c) ==
    CASE c = "C" -> "c"
      [] c = "D" -> "d"
      [] c = "A" -> "a"
      [] c = "X" -> "x"
      [] c = "P" -> "p"
      [] c = "N" -> "n"
      [] c = "G" -> "g"
      [] c = "F" -> "f"
      [] OTHER -> c

toLowerCase(s) == [i \in 1..Len(s) |-> lowerChar(s[i])]

\* navigator.platform of the WebView2 host the application is built for
isWin == TRUE

pathEquals(a, b) ==
    LET na == pathNorm(a)
        nb == pathNorm(b)
    IN  IF na = nb THEN TRUE
        ELSE IF na = <<>> \/ nb = <<>> THEN FALSE
        ELSE IF isWin THEN toLowerCase(na) = toLowerCase(nb)
        ELSE na = nb

\* s.split(/\\/).filter((x) => x.length > 0)
RECURSIVE splitParts(_, _)
splitParts(s, cur) ==
    IF s = <<>> THEN (IF cur = <<>> THEN <<>> ELSE <<cur>>)
    ELSE IF Head(s) = BS
         THEN (IF cur = <<>> THEN <<>> ELSE <<cur>>) \o splitParts(Tail(s), <<>>)
         ELSE splitParts(Tail(s), Append(cur, Head(s)))

isLetter(c) == c \in {"C", "c", "D", "d", "A", "a", "X", "x"}

\* /^[a-zA-Z]:$/
isDrive(part) == Len(part) = 2 /\ isLetter(part[1]) /\ part[2] = ":"

endsWithBackslash(s) == s # <<>> /\ s[Len(s)] = BS

RECURSIVE segmentsFrom(_, _, _)
segmentsFrom(parts, i, acc) ==
    IF i > Len(parts) THEN <<>>
    ELSE LET next == acc \o (IF endsWithBackslash(acc) THEN <<>> ELSE <<BS>>) \o parts[i]
         IN  <<next>> \o segmentsFrom(parts, i + 1, next)

getPathSegments(fullPath) ==
    LET normalized == normalizePath(fullPath)
        parts == splitParts(normalized, <<>>)
    IN  IF normalized = <<>> \/ parts = <<>> THEN <<>>
        ELSE LET acc == IF isDrive(parts[1]) THEN parts[1] \o <<BS>> ELSE parts[1]
             IN  <<acc>> \o segmentsFrom(parts, 2, acc)

(***************************************************************************)
(* The directory-listing collaborator: the drives and folders it reports.  *)
(***************************************************************************)
ROOT_C == <<"C", ":", BS>>
ROOT_D == <<"D", ":", BS>>
DIR_A == <<"C", ":", BS, "a">>

\* entries of a successful get_folder_roots
rootEntries == <<ROOT_C, ROOT_D>>

\* entries of a successful list_directory(path) that are directories
dirEntries(path) == IF path = ROOT_C THEN <<DIR_A>> ELSE <<>>

\* how an invoke() may settle: a success result, a failure result ({ok:false}),
\* or a rejected promise
Outcomes == {"ok", "fail", "reject"}

\* values of the initialPath argument (persisted last_folder): none, a folder
\* that exists (written with other separators and case), and a folder below a
\* folder that no longer exists
NoPath == <<>>
PATH_A == <<"c", ":", "/", "a", "/">>
PATH_STALE == <<"C", ":", BS, "x", BS, "a">>
InitialPaths == {NoPath, PATH_A, PATH_STALE}

(***************************************************************************)
(* State of one folder tree.                                               *)
(***************************************************************************)
VARIABLES
    tauri,        \* window.__TAURI__.core.invoke is available
    initialPath,  \* the initialPath argument of createFolderTree
    nodes,        \* every li created by createNode, by id: path, parent li (0: treeEl),
                  \* aria-expanded, its ul (none/loading/error/kids), ul.hidden, child li's,
                  \* and the requests issued for it and applied to it
    treeState,    \* what treeEl holds: "loading", "error" or "roots"
    treeRoots,    \* the root li's of treeEl, in order
    loadedPaths,  \* the loadedPaths set
    sel,          \* li's whose span has class "selected"
    inflight,     \* list_directory calls not yet settled: [id, node, by]
    nReq,         \* list_directory calls issued so far
    loads,        \* the calls of loadRoots, in order: where each one is suspended
    errMsg,       \* last argument of onError ("unset" before the first call)
    emitted,      \* calls of onSelect made by the latest task
    img,          \* the img element of each display of an Image entry (see Displays)
    vid,          \* the element of each display of a Video entry (see noVid)
    aud,          \* the Music tab: the audio element, the selected track, the
                  \* read_file_as_audio_url calls in flight and the help message
    pth,          \* a path string and what normalizePath and getPathSegments make of it
    ss,           \* the slideshow of the viewer window: interval, timer, button
    vw,           \* the viewer window and the viewer context it reads
    pane,         \* the entry each display shows and the text it shows in its place
    rsv,          \* one folder, the listing last returned for it and the files
                  \* resolved from that listing (see rsvIdle)
    app           \* the main window: persisted keys, the Photos folder and file it
                  \* remembers, the thumbnail grid and its pending loads (see appIdle)

treeVars == <<tauri, initialPath, nodes, treeState, treeRoots, loadedPaths, sel,
              inflight, nReq, loads, errMsg, emitted>>

mainVars == <<app, rsv, vid, pane, aud, vw, pth, ss>>

vars == <<treeVars, img, mainVars>>

Range(f) == {f[i] : i \in DOMAIN f}

\* the mutable part of the tree as one value, threaded through the functions
Cur ==
    [nodes |-> nodes, treeState |-> treeState, treeRoots |-> treeRoots,
     loadedPaths |-> loadedPaths, sel |-> sel, inflight |-> inflight, nReq |-> nReq,
     loads |-> loads, errMsg |-> errMsg, emitted |-> <<>>]

Becomes(S) ==
    /\ nodes' = S.nodes
    /\ treeState' = S.treeState
    /\ treeRoots' = S.treeRoots
    /\ loadedPaths' = S.loadedPaths
    /\ sel' = S.sel
    /\ inflight' = S.inflight
    /\ nReq' = S.nReq
    /\ loads' = S.loads
    /\ errMsg' = S.errMsg
    /\ emitted' = S.emitted
    /\ UNCHANGED <<tauri, initialPath, img, mainVars>>

createNode(path, parent) ==
    [path |-> path, parent |-> parent, expanded |-> FALSE, ul |-> "none",
     hidden |-> FALSE, kids |-> <<>>, applied |-> 0, lastReq |-> 0]

\* li is in the document: under treeEl through the ul of each ancestor
RECURSIVE Attached(_, _)
Attached(S, n) ==
    IF S.nodes[n].parent = 0 THEN n \in Range(S.treeRoots)
    ELSE /\ n \in Range(S.nodes[S.nodes[n].parent].kids)
         /\ Attached(S, S.nodes[n].parent)

\* li is in the document and no ul above it is hidden: the user can click it
RECURSIVE Visible(_, _)
Visible(S, n) ==
    IF S.nodes[n].parent = 0 THEN n \in Range(S.treeRoots)
    ELSE /\ n \in Range(S.nodes[S.nodes[n].parent].kids)
         /\ ~S.nodes[S.nodes[n].parent].hidden
         /\ Visible(S, S.nodes[n].parent)

AttachedSet(S) == {n \in DOMAIN S.nodes : Attached(S, n)}

\* selectNode that does not clear the selected mark of the other items
selectNodeKeep(S, li) == [S EXCEPT !.sel = S.sel \cup {li}]

selectNode(S, li) == [S EXCEPT !.sel = (S.sel \ AttachedSet(S)) \cup {li}]

onSelect(S, path, programmatic) ==
    [S EXCEPT !.emitted = Append(@, [path |-> path, programmatic |-> programmatic])]

onError(S, msg) == [S EXCEPT !.errMsg = msg]

\* loadChildren up to its await: the ul shows "Loading..." and the call is issued
loadChildrenStart(S, li, by) ==
    [S EXCEPT !.nodes[li].ul = "loading",
              !.nodes[li].kids = <<>>,
              !.nodes[li].hidden = FALSE,
              !.nodes[li].lastReq = S.nReq + 1,
              !.inflight = @ \cup {[id |-> S.nReq + 1, node |-> li, by |-> by]},
              !.nReq = @ + 1]

\* child li's appended for the directory entries of a listing
appendChildren(S, li, dirs) ==
    LET n == Len(S.nodes)
        fresh == [i \in 1..Len(dirs) |-> createNode(dirs[i], li)]
    IN  [S EXCEPT !.nodes = [S.nodes EXCEPT ![li].kids = [i \in 1..Len(dirs) |-> n + i]]
                            \o fresh]

\* loadChildren after its await, for a call that returned a result
loadChildrenResult(S, r, outcome) ==
    LET li == r.node
        path == S.nodes[li].path
    IN  IF outcome = "fail"
        THEN onError([S EXCEPT !.nodes[li].ul = "error",
                               !.nodes[li].kids = <<>>,
                               !.nodes[li].applied = r.id], "list_directory failed")
        ELSE appendChildren([S EXCEPT !.loadedPaths = @ \cup {path},
                                      !.nodes[li].ul = "kids",
                                      !.nodes[li].hidden = FALSE,
                                      !.nodes[li].applied = r.id], li, dirEntries(path))

\* toggleExpand that loads the children on every expand
toggleExpandRefetch(S, li) ==
    IF S.nodes[li].expanded
    THEN [S EXCEPT !.nodes[li].expanded = FALSE,
                   !.nodes[li].hidden = IF S.nodes[li].ul # "none" THEN TRUE ELSE @]
    ELSE loadChildrenStart([S EXCEPT !.nodes[li].expanded = TRUE], li, 0)

\* toggleExpand that drops the children and the loaded flag on collapse
toggleExpandDiscard(S, li) ==
    IF S.nodes[li].expanded
    THEN [S EXCEPT !.nodes[li].expanded = FALSE,
                   !.nodes[li].hidden = IF S.nodes[li].ul # "none" THEN TRUE ELSE @,
                   !.nodes[li].kids = <<>>,
                   !.loadedPaths = @ \ {S.nodes[li].path}]
    ELSE LET T == [S EXCEPT !.nodes[li].expanded = TRUE]
         IN  IF S.nodes[li].path \notin S.loadedPaths
             THEN loadChildrenStart(T, li, 0)
             ELSE [T EXCEPT !.nodes[li].hidden = FALSE]

toggleExpand(S, li) ==
    IF S.nodes[li].expanded
    THEN [S EXCEPT !.nodes[li].expanded = FALSE,
                   !.nodes[li].hidden = IF S.nodes[li].ul # "none" THEN TRUE ELSE @]
    ELSE LET T == [S EXCEPT !.nodes[li].expanded = TRUE]
         IN  IF S.nodes[li].path \notin S.loadedPaths
             THEN loadChildrenStart(T, li, 0)
             ELSE [T EXCEPT !.nodes[li].hidden = FALSE]

(***************************************************************************)
(* The restore walk (expandAndSelectPath) and loadRoots.                   *)
(***************************************************************************)
\* a call of loadRoots: pc is where it is ("roots": awaiting get_folder_roots,
\* "listing": awaiting the list_directory call req inside expandNode, "done":
\* returned, "threw": its promise rejected); walk is the state of its
\* expandAndSelectPath (k: index of the segment at hand, parentUl: the ul searched,
\* 0 for treeEl, visited: the li's found so far, the last one being lastLi)
newLoad ==
    [pc |-> "roots", walk |-> "none", k |-> 0, parentUl |-> 0, visited |-> <<>>,
     req |-> 0]

pathToRestore == normalizePath(initialPath)

\* expandNode with loadChildren called but not awaited
expandNodeNoAwait(S, li, l) ==
    IF S.nodes[li].expanded
    THEN [st |-> [S EXCEPT !.nodes[li].hidden = FALSE], awaits |-> FALSE]
    ELSE LET T == [S EXCEPT !.nodes[li].expanded = TRUE]
         IN  IF S.nodes[li].path \notin S.loadedPaths
             THEN [st |-> loadChildrenStart(T, li, l), awaits |-> FALSE]
             ELSE [st |-> [T EXCEPT !.nodes[li].hidden = FALSE], awaits |-> FALSE]

\* expandNode: the state it leaves and whether the caller is suspended on loadChildren
expandNode(S, li, l) ==
    IF S.nodes[li].expanded
    THEN [st |-> [S EXCEPT !.nodes[li].hidden = FALSE], awaits |-> FALSE]
    ELSE LET T == [S EXCEPT !.nodes[li].expanded = TRUE]
         IN  IF S.nodes[li].path \notin S.loadedPaths
             THEN [st |-> loadChildrenStart(T, li, l), awaits |-> TRUE]
             ELSE [st |-> [T EXCEPT !.nodes[li].hidden = FALSE], awaits |-> FALSE]

\* the li's with a data-path among the children of a ul (the retry li of an error
\* ul carries the path of its own folder, which no later segment equals)
childrenOf(S, ul) == IF ul = 0 THEN S.treeRoots ELSE S.nodes[ul].kids

\* lis.find((el) => pathEquals(el.getAttribute('data-path'), seg)): 0 when none
findLi(S, lis, seg) ==
    LET hits == {i \in 1..Len(lis) : pathEquals(S.nodes[lis[i]].path, seg)}
    IN  IF hits = {} THEN 0 ELSE lis[CHOOSE i \in hits : \A j \in hits : i <= j]

\* expandAndSelectPath from segment k on, until it returns or is suspended
RECURSIVE walk(_, _, _, _, _)
walk(S, l, k, parentUl, visited) ==
    LET segments == getPathSegments(pathToRestore)
    IN  IF k > Len(segments)
        THEN LET lastLi == visited[Len(visited)]
                 T == onSelect(selectNode(S, lastLi), pathToRestore, TRUE)
             IN  [T EXCEPT !.loads[l].walk = "completed", !.loads[l].k = k,
                           !.loads[l].parentUl = parentUl, !.loads[l].visited = visited]
        ELSE LET li == findLi(S, childrenOf(S, parentUl), segments[k])
             IN  IF li = 0
                 THEN [S EXCEPT !.loads[l].walk = "aborted", !.loads[l].k = k,
                                !.loads[l].parentUl = parentUl,
                                !.loads[l].visited = visited]
                 ELSE LET e == expandNode(S, li, l)
                          T == e.st
                      IN  IF e.awaits
                          THEN [T EXCEPT !.loads[l].pc = "listing",
                                         !.loads[l].walk = "running",
                                         !.loads[l].k = k,
                                         !.loads[l].parentUl = parentUl,
                                         !.loads[l].visited = Append(visited, li),
                                         !.loads[l].req = T.nReq]
                          ELSE walk(T, l, k + 1,
                                    IF T.nodes[li].ul # "none" THEN li ELSE parentUl,
                                    Append(visited, li))

\* the fallback without its test for an existing selection
defaultSelectionAlways(S) ==
    IF S.treeRoots # <<>>
    THEN onSelect(selectNode(S, S.treeRoots[1]), S.nodes[S.treeRoots[1]].path, TRUE)
    ELSE S

\* the default-selection fallback at the end of loadRoots
defaultSelection(S) ==
    IF S.sel \cap AttachedSet(S) = {} /\ S.treeRoots # <<>>
    THEN onSelect(selectNode(S, S.treeRoots[1]), S.nodes[S.treeRoots[1]].path, TRUE)
    ELSE S

\* loadRoots running its fallback without awaiting expandAndSelectPath
finishLoadEarly(S, l) ==
    IF S.loads[l].pc = "listing" THEN defaultSelection(S)
    ELSE [defaultSelection(S) EXCEPT !.loads[l].pc = "done"]

\* loadRoots from the end of expandAndSelectPath to its return
finishLoad(S, l) ==
    IF S.loads[l].pc = "listing" THEN S
    ELSE [defaultSelection(S) EXCEPT !.loads[l].pc = "done"]

\* loadRoots after the roots are in place: the restore, then the fallback
restoreThenFinish(S, l) ==
    IF pathToRestore # <<>>
    THEN finishLoad(walk([S EXCEPT !.loads[l].pc = "walk"], l, 1, 0, <<>>), l)
    ELSE finishLoad([S EXCEPT !.loads[l].pc = "walk"], l)

\* treeEl.innerHTML = '' and one li per root entry
buildRoots(S) ==
    LET n == Len(S.nodes)
    IN  [S EXCEPT !.treeState = "roots",
                  !.treeRoots = [i \in 1..Len(rootEntries) |-> n + i],
                  !.nodes = @ \o [i \in 1..Len(rootEntries) |-> createNode(rootEntries[i], 0)]]

showRootsError(S, msg) ==
    onError([S EXCEPT !.treeState = "error", !.treeRoots = <<>>], msg)

\* loadRoots after get_folder_roots settled
loadRootsResult(S, l, outcome) ==
    CASE outcome = "ok" -> restoreThenFinish(onError(buildRoots(S), ""), l)
      [] outcome = "fail" ->
            [showRootsError(S, "get_folder_roots failed") EXCEPT !.loads[l].pc = "done"]
      [] outcome = "reject" ->
            restoreThenFinish(showRootsError(S, "get_folder_roots rejected"), l)

\* loadRoots up to its first await
loadRootsStart(S) ==
    LET T == [S EXCEPT !.treeState = "loading", !.treeRoots = <<>>, !.loadedPaths = {}]
    IN  IF ~tauri
        THEN [showRootsError(T, "Tauri API not available.") EXCEPT
                  !.loads = Append(@, [newLoad EXCEPT !.pc = "done"])]
        ELSE [T EXCEPT !.loads = Append(@, newLoad)]

Empty ==
    [nodes |-> <<>>, treeState |-> "loading", treeRoots |-> <<>>, loadedPaths |-> {},
     sel |-> {}, inflight |-> {}, nReq |-> 0, loads |-> <<>>, errMsg |-> "unset",
     emitted |-> <<>>]

\* the continuation of a settled list_directory call: loadChildren goes on (or
\* throws), and with it the expandNode, expandAndSelectPath and loadRoots that await it
listSettled(S, r, outcome) ==
    LET l == r.by
    IN  IF outcome = "reject"
        THEN (IF l = 0 THEN S ELSE [S EXCEPT !.loads[l].pc = "threw"])
        ELSE IF l = 0 THEN loadChildrenResult(S, r, outcome)
        ELSE finishLoad(walk([loadChildrenResult(S, r, outcome) EXCEPT !.loads[l].pc = "walk"],
                             l, S.loads[l].k + 1, r.node, S.loads[l].visited), l)

\* the calls counted against MaxCalls
nCalls(S) == Len(S.loads) + S.nReq

(***************************************************************************)
(* Display of an Image entry: the preview pane of the main window          *)
(* (showPreview), the viewer window (showImage) and a cell of the          *)
(* thumbnail grid (loadThumbnails).                                        *)
(***************************************************************************)
Displays == {"preview", "viewer", "grid"}

\* the img element of a display: src (none, asset: the convertFileSrc URL, empty,
\* data: the data URL), whether the browser is still loading src, the handler in
\* img.onerror (none, chain: the handler that asks for the data URL, placeholder),
\* read_file_as_data_url calls in flight and issued, and what the user sees
noImg ==
    [src |-> "none", loading |-> FALSE, onerror |-> "none", pending |-> 0, reqs |-> 0,
     view |-> "none"]

\* the placeholder of a display: the file name in place of the img in the preview
\* and the viewer, the hidden img in the grid
placeholder(d, i) ==
    IF d = "grid" THEN [i EXCEPT !.view = "hidden"] ELSE [i EXCEPT !.view = "placeholder"]

\* showPreview / showImage / the grid cell, for an Image entry; throws: whether
\* convertFileSrc throws
showImage(d, throws) ==
    LET i == [noImg EXCEPT !.view = "img"]
    IN  IF ~tauri THEN [i EXCEPT !.onerror = "chain"]
        ELSE IF ~throws
        THEN [i EXCEPT !.src = "asset", !.loading = TRUE, !.onerror = "chain"]
        ELSE IF d = "grid"
        THEN [i EXCEPT !.src = "empty", !.loading = TRUE, !.onerror = "chain"]
        ELSE placeholder(d, i)

\* img.onerror fires
onImgError(d, i) ==
    CASE i.onerror = "none" -> i
      [] i.onerror = "placeholder" -> placeholder(d, i)
      [] i.onerror = "chain" ->
            IF ~tauri THEN placeholder(d, i)
            ELSE [i EXCEPT !.pending = @ + 1, !.reqs = @ + 1]

\* read_file_as_data_url resolved: the handler sets img.src to the data URL
onDataUrl(d, i) ==
    LET j == [i EXCEPT !.pending = @ - 1, !.src = "data", !.loading = TRUE]
    IN  IF d = "preview" THEN [j EXCEPT !.onerror = "placeholder"] ELSE j

\* read_file_as_data_url rejected
onDataRejected(d, i) == placeholder(d, [i EXCEPT !.pending = @ - 1])

imgIdle == [d \in Displays |-> noImg]

(***************************************************************************)
(* The displays of a Video entry: the video element of the preview pane    *)
(* and of the viewer window, and the img element of a grid cell.           *)
(***************************************************************************)
\* view: what the display holds ("none", "video", "img", "placeholder");
\* src: "none", "asset" (convertFileSrc), "empty" ('') or "data" (a data URL);
\* loading: the browser is loading src; pending: get_video_thumbnail_data_url
\* calls not yet settled; broken: the load of src failed and nothing replaced
\* the element
noVid == [view |-> "none", src |-> "none", loading |-> FALSE, pending |-> 0, broken |-> FALSE]

videoPlaceholder(v) == [v EXCEPT !.view = "placeholder", !.loading = FALSE, !.broken = FALSE]

\* a Video entry is shown in display d; throws: convertFileSrc throws
showVideo(d, v, throws) ==
    IF d = "preview"
    THEN IF throws THEN videoPlaceholder(v)
         ELSE [v EXCEPT !.view = "video", !.src = "asset", !.loading = TRUE]
    ELSE IF d = "viewer"
    THEN IF throws THEN v
         ELSE [v EXCEPT !.view = "video", !.src = "asset", !.loading = TRUE]
    ELSE [v EXCEPT !.view = "img", !.src = "empty", !.loading = TRUE, !.pending = @ + 1]

\* the error event of the element
onVideoError(d, v) ==
    IF d = "preview" THEN videoPlaceholder(v)
    ELSE [v EXCEPT !.loading = FALSE, !.broken = TRUE]

\* get_video_thumbnail_data_url resolved
onThumbnailDataUrl(v) ==
    [v EXCEPT !.pending = @ - 1, !.src = "data", !.loading = TRUE, !.broken = FALSE]

\* get_video_thumbnail_data_url rejected
onThumbnailRejected(v) == videoPlaceholder([v EXCEPT !.pending = @ - 1])

vidIdle == [d \in Displays |-> noVid]

(***************************************************************************)
(* Classification of file names and the resolution of a directory listing  *)
(* into the sequence a grid or a playable list shows.                      *)
(***************************************************************************)
IMAGE_EXT ==
    {<<"j", "p", "g">>, <<"j", "p", "e", "g">>, <<"p", "n", "g">>,
     <<"g", "i", "f">>, <<"b", "m", "p">>, <<"w", "e", "b", "p">>,
     <<"t", "i", "f", "f">>, <<"t", "i", "f">>, <<"i", "c", "o">>,
     <<"s", "v", "g">>}
VIDEO_EXT ==
    {<<"m", "p", "4">>, <<"m", "o", "v">>, <<"a", "v", "i">>,
     <<"w", "e", "b", "m">>, <<"m", "k", "v">>, <<"m", "4", "v">>,
     <<"w", "m", "v">>}
HEIC_EXT == {<<"h", "e", "i", "c">>, <<"h", "e", "i", "f">>}
PDF_EXT == {<<"p", "d", "f">>}
AUDIO_EXT_WithMp4 ==
    {<<"m", "p", "3">>, <<"m", "p", "4">>, <<"w", "e", "b", "m">>}

AUDIO_EXT ==
    {<<"m", "p", "3">>, <<"w", "a", "v">>, <<"o", "g", "g">>,
     <<"m", "4", "a">>, <<"a", "a", "c">>, <<"f", "l", "a", "c">>,
     <<"w", "m", "a">>, <<"o", "p", "u", "s">>, <<"w", "e", "b", "m">>}

\* index of the last "." of s, 0 when there is none
RECURSIVE lastDot(_)
lastDot(s) == IF s = <<>> THEN 0 ELSE IF s[Len(s)] = "." THEN Len(s)
              ELSE lastDot(SubSeq(s, 1, Len(s) - 1))

\* (name.split('.').pop() || '').toLowerCase(): what follows the last ".", and
\* the whole name when it holds no "."
getExt(name) == toLowerCase(SubSeq(name, lastDot(name) + 1, Len(name)))

isMediaFile(name) ==
    LET ext == getExt(name)
    IN  ext \in IMAGE_EXT \/ ext \in VIDEO_EXT \/ ext \in HEIC_EXT \/ ext \in PDF_EXT

isHeic(name) == getExt(name) \in HEIC_EXT

isPdfCaseSensitive(name) == SubSeq(name, lastDot(name) + 1, Len(name)) \in PDF_EXT

isPdf(name) == getExt(name) \in PDF_EXT

isVideo(name) == getExt(name) \in VIDEO_EXT

isAudioFile(name) == getExt(name) \in AUDIO_EXT

\* what a grid cell shows a file of the grid as
gridKind(name) ==
    IF isHeic(name) THEN "Heic"
    ELSE IF isPdf(name) THEN "Pdf"
    ELSE IF isVideo(name) THEN "Video"
    ELSE "Image"

\* primary collation order of the characters of the names of the model:
\* punctuation, then digits, then letters
Collation == <<".", "3", "4", "a", "b", "c", "d", "e", "f", "g", "j", "m", "n", "p", "t", "w", "x", "y">>

\* primary weight of a character; with sensitivity "base" the two cases of a
\* letter weigh the same
primary(c) == CHOOSE i \in 1..Len(Collation) : Collation[i] = lowerChar(c)

\* a.localeCompare(b, undefined, { sensitivity: 'base' })
RECURSIVE localeCompare(_, _)
localeCompare(a, b) ==
    IF a = <<>> /\ b = <<>> THEN 0
    ELSE IF a = <<>> THEN -1
    ELSE IF b = <<>> THEN 1
    ELSE IF primary(Head(a)) < primary(Head(b)) THEN -1
    ELSE IF primary(Head(a)) > primary(Head(b)) THEN 1
    ELSE localeCompare(Tail(a), Tail(b))

\* where a stable sort puts file f into the sorted sequence s: behind every
\* element that does not compare greater
RECURSIVE insertSorted(_, _)
insertSorted(s, f) ==
    IF s = <<>> THEN <<f>>
    ELSE IF localeCompare(f.name, Head(s).name) < 0 THEN <<f>> \o s
    ELSE <<Head(s)>> \o insertSorted(Tail(s), f)

\* files.sort((a, b) => a.name.localeCompare(b.name, ...)): Array.prototype.sort
\* is stable
RECURSIVE sortByName(_)
sortByName(files) ==
    IF files = <<>> THEN <<>>
    ELSE insertSorted(sortByName(SubSeq(files, 1, Len(files) - 1)), files[Len(files)])

isGridFile(e) == ~e.is_dir /\ isMediaFile(e.name)

\* files of loadThumbnails: the filtered and sorted entries of a listing
gridFiles(entries) == sortByName(SelectSeq(entries, isGridFile))

isPlayableFile(e) == ~e.is_dir /\ isAudioFile(e.name)

\* files of loadPlayableList
playableFiles(entries) == sortByName(SelectSeq(entries, isPlayableFile))

\* paths = files.map((f) => f.path)
pathsOf(files) == [i \in 1..Len(files) |-> files[i].path]

(***************************************************************************)
(* Folders of the resolver model: what the listing collaborator may report *)
(* for one folder.                                                         *)
(***************************************************************************)
\* entries of one folder
MaxEntries == 3

entry(name, is_dir) == [name |-> name, path |-> DIR_A \o <<BS>> \o name, is_dir |-> is_dir]

B_JPG == <<"b", ".", "j", "p", "g">>
A_PNG == <<"A", ".", "P", "N", "G">>
C_MP4 == <<"c", ".", "m", "p", "4">>
D_TXT == <<"d", ".", "t", "x", "t">>
A_PNG_LOWER == <<"a", ".", "p", "n", "g">>
PDF_NO_DOT == <<"p", "d", "f">>
M_JPG_DIR == <<"m", ".", "j", "p", "g">>
X_WEBM == <<"x", ".", "w", "e", "b", "m">>
F_MP3 == <<"f", ".", "m", "p", "3">>

\* the entries a folder is made of; A.PNG and a.png are two files of a
\* case-sensitive directory, m.jpg is a subdirectory
Pool ==
    {entry(B_JPG, FALSE), entry(A_PNG, FALSE), entry(C_MP4, FALSE), entry(D_TXT, FALSE),
     entry(A_PNG_LOWER, FALSE), entry(PDF_NO_DOT, FALSE), entry(M_JPG_DIR, TRUE),
     entry(X_WEBM, FALSE), entry(F_MP3, FALSE)}

\* the folder of the documented scenario
Scenario == {entry(B_JPG, FALSE), entry(A_PNG, FALSE), entry(C_MP4, FALSE), entry(D_TXT, FALSE)}

FolderContents == {F \in SUBSET Pool : Cardinality(F) <= MaxEntries} \cup {Scenario}

\* the orders in which list_directory may return the entries of a folder
RECURSIVE Listings(_)
Listings(F) ==
    IF F = {} THEN {<<>>}
    ELSE UNION {{<<e>> \o l : l \in Listings(F \ {e})} : e \in F}

rsvIdle == [folder |-> {}, listing |-> <<>>, files |-> <<>>, shown |-> "none"]

(***************************************************************************)
(* A display shows an entry: the branch taken for its name.                *)
(***************************************************************************)
H_HEIF == <<"h", ".", "h", "e", "i", "f">>
P_PDF_UPPER == <<"p", ".", "P", "D", "F">>

\* names of the entries a display is given
EntryNames == {B_JPG, C_MP4, H_HEIF, P_PDF_UPPER}

\* name: the entry shown (<<>>: none); text: the fixed text shown in place of
\* an element ("none", "HEIC", "PDF")
noPane == [name |-> <<>>, text |-> "none"]

paneIdle == [d \in Displays |-> noPane]

\* what showPreview / showImage / the grid cell make of an entry: the text, the
\* img element and the video element (or video thumbnail) of the display
showEntry(d, name, throws) ==
    IF isHeic(name) THEN [text |-> "HEIC", img |-> noImg, vid |-> noVid]
    ELSE IF isPdf(name) THEN [text |-> "PDF", img |-> noImg, vid |-> noVid]
    ELSE IF isVideo(name) THEN [text |-> "none", img |-> noImg, vid |-> showVideo(d, noVid, throws)]
    ELSE [text |-> "none", img |-> showImage(d, throws), vid |-> noVid]

(***************************************************************************)
(* The main window: persisted keys, the Photos folder and file it          *)
(* remembers, and the thumbnail grid.                                      *)
(***************************************************************************)
\* loadThumbnails calls awaiting their listing at one time
MaxGridLoads == 2

\* Parent directory of a file path
RECURSIVE lastIndexOf(_, _)
lastIndexOf(s, c) == IF s = <<>> THEN 0 ELSE IF s[Len(s)] = c THEN Len(s)
                     ELSE lastIndexOf(SubSeq(s, 1, Len(s) - 1), c)

dirname(p) ==
    IF p = <<>> THEN <<>>
    ELSE LET s == slashesToBackslashes(trim(p))
             i == lastIndexOf(s, BS)
         IN  IF i = 0 THEN s
             ELSE LET out == SubSeq(s, 1, i - 1)
                  IN  IF Len(out) = 2 /\ out[2] = ":" THEN out \o <<BS>> ELSE out

\* a || b on strings
orElse(a, b) == IF a # <<>> THEN a ELSE b

\* the folders of the Photos tree and the files list_directory reports for them,
\* in the order it reports them
PhotoFolders == {ROOT_C, DIR_A, ROOT_D}
Y_JPG == <<"y", ".", "j", "p", "g">>

fileEntry(folder, name) ==
    [name |-> name,
     path |-> folder \o (IF endsWithBackslash(folder) THEN <<>> ELSE <<BS>>) \o name,
     is_dir |-> FALSE]

folderListing(folder) ==
    IF folder = ROOT_C
    THEN <<[name |-> <<"a">>, path |-> DIR_A, is_dir |-> TRUE], fileEntry(ROOT_C, Y_JPG)>>
    ELSE IF folder = DIR_A THEN <<fileEntry(DIR_A, B_JPG), fileEntry(DIR_A, A_PNG)>>
    ELSE <<fileEntry(folder, D_TXT)>>

\* state of the main window after a first start: nothing persisted
appIdle ==
    [store |-> [last_folder |-> <<>>, last_selected_file |-> <<>>],
     db |-> "ok",
     running |-> TRUE,
     folderToRestore |-> <<>>,
     restoring |-> TRUE,
     currentPhotosFolder |-> <<>>,
     lastSelectedFilePath |-> <<>>,
     pendingRestoreSelectedFile |-> <<>>,
     gridLoads |-> {},
     cells |-> <<>>,
     opened |-> <<>>,
     target |-> <<>>,
     selected |-> <<>>,
     clicked |-> <<>>]

\* how a set_persisted call ends: the value is written, the promise rejects,
\* or the call never completes
DbOutcomes == {"ok", "fail", "hang"}

\* a write that fails undoes what the window remembers
persistRollback(A, key, value) ==
    LET v == trim(value)
    IN  IF v = <<>> THEN A
        ELSE IF A.db = "ok" THEN [A EXCEPT !.store[key] = v]
        ELSE [A EXCEPT !.currentPhotosFolder = <<>>]

\* persist(key, value): set_persisted is called, unless the value is empty, and
\* its promise is left alone (a rejection is caught and logged); A.db is how
\* the call ends
persist(A, key, value) ==
    LET v == trim(value)
    IN  IF v = <<>> \/ A.db # "ok" THEN A ELSE [A EXCEPT !.store[key] = v]

\* the persistence load at startup and what is derived from it
startup(A) ==
    LET lastFolder == trim(A.store.last_folder)
        lastSelectedFile == trim(A.store.last_selected_file)
        restore == IF lastSelectedFile # <<>> THEN dirname(lastSelectedFile) ELSE lastFolder
    IN  [A EXCEPT !.running = TRUE,
                  !.restoring = TRUE,
                  !.pendingRestoreSelectedFile = lastSelectedFile,
                  !.folderToRestore = restore,
                  !.currentPhotosFolder = restore,
                  !.lastSelectedFilePath = lastSelectedFile,
                  !.gridLoads = {},
                  !.cells = <<>>,
                  !.opened = <<>>,
                  !.target = <<>>,
                  !.selected = <<>>]

persistCurrentState(A) ==
    LET B == IF A.currentPhotosFolder # <<>> THEN persist(A, "last_folder", A.currentPhotosFolder) ELSE A
    IN  IF B.lastSelectedFilePath # <<>>
        THEN persist(B, "last_selected_file", B.lastSelectedFilePath)
        ELSE B

\* loadThumbnails up to its await
loadThumbnailsStart(A, folderPath, initialSelectedPath) ==
    [A EXCEPT !.cells = <<>>,
              !.gridLoads = @ \cup {[folder |-> folderPath, initial |-> initialSelectedPath]}]

\* onSelect of the Photos tree
photosOnSelect(A, path, programmatic) ==
    LET B == [A EXCEPT !.currentPhotosFolder = orElse(path, @)]
        C == IF ~programmatic THEN persist(B, "last_folder", path) ELSE B
        initialFile == C.pendingRestoreSelectedFile
    IN  loadThumbnailsStart([C EXCEPT !.pendingRestoreSelectedFile = <<>>], path, initialFile)

\* onSelect of the grid: a thumbnail is selected
gridOnSelect(A, filePath) ==
    LET B == [A EXCEPT !.lastSelectedFilePath = filePath,
                       !.currentPhotosFolder = orElse(dirname(filePath), @)]
    IN  persist(persist(B, "last_selected_file", filePath), "last_folder", dirname(filePath))

\* the cells of a grid load: data-path, and the paths and i its dblclick
\* listener closes over
cellsOf(files) ==
    [k \in 1..Len(files) |-> [path |-> files[k].path, paths |-> pathsOf(files), i |-> k - 1]]

\* a load that always selects the first cell
cellToSelectFirst(cells, initialSelectedPath) == 1

\* index of the cell selected after a load: the one of initialSelectedPath when
\* it is in the grid, else the first
cellToSelect(cells, initialSelectedPath) ==
    LET pathToSelect == trim(initialSelectedPath)
        found == {k \in 1..Len(cells) : cells[k].path = pathToSelect}
    IN  IF pathToSelect # <<>> /\ found # {}
        THEN CHOOSE k \in found : \A j \in found : k <= j
        ELSE 1

\* loadThumbnails from its await on
loadThumbnailsResult(A, g, outcome) ==
    LET B == [A EXCEPT !.gridLoads = @ \ {g}]
        files == gridFiles(folderListing(g.folder))
    IN  IF outcome # "ok" \/ files = <<>>
        THEN [B EXCEPT !.cells = <<>>]
        ELSE LET cells == cellsOf(files)
             IN  gridOnSelect([B EXCEPT !.cells = cells],
                              cells[cellToSelect(cells, g.initial)].path)

\* arguments of open_viewer_window
onActivateDropIndex(paths, startIndex) ==
    IF Len(paths) > 0 THEN <<[paths |-> paths, startIndex |-> 0]>> ELSE <<>>

onActivate(paths, startIndex) ==
    IF Len(paths) > 0 THEN <<[paths |-> paths, startIndex |-> startIndex]>> ELSE <<>>

(***************************************************************************)
(* The Music tab: the playable list, the audio element and the player      *)
(* buttons.                                                                *)
(***************************************************************************)
\* read_file_as_audio_url calls for one track awaiting their result at one time
MaxAudioReq == 2

\* the rows of the playable list of the music folder
musicListing == <<fileEntry(DIR_A, X_WEBM), fileEntry(DIR_A, F_MP3), fileEntry(DIR_A, D_TXT)>>

Tracks == Range(pathsOf(playableFiles(musicListing)))

noSrc == [kind |-> "none", track |-> <<>>]

\* src: the src of the audio element ("data": the data URL returned for track);
\* paused: audioEl.paused; pending: read_file_as_audio_url calls in flight, by
\* track; help: the help message (text, isError); issued: the calls the latest
\* task issued; rows: the data-path of the rows of the playable list (the list
\* of folder a is loaded); selectedRow: the row of class selected; listLoads:
\* the loadPlayableList calls awaiting their listing; restoring: the Music tree
\* has not finished loading; ev: the event the latest task handled
audIdle ==
    [src |-> noSrc,
     paused |-> TRUE,
     selectedTrackPath |-> <<>>,
     currentMusicFolder |-> <<>>,
     store |-> [last_music_folder |-> <<>>, last_selected_track |-> <<>>],
     db |-> "ok",
     pending |-> [t \in Tracks |-> 0],
     help |-> [text |-> "", isError |-> FALSE],
     issued |-> <<>>,
     rows |-> pathsOf(playableFiles(musicListing)),
     selectedRow |-> <<>>,
     listLoads |-> {},
     pendingRestoreSelectedTrack |-> <<>>,
     musicFolderToRestore |-> <<>>,
     restoring |-> FALSE,
     ev |-> [type |-> "none", track |-> <<>>, outcome |-> "none"]]

setHelpMessage(A, text, isError) == [A EXCEPT !.help = [text |-> text, isError |-> isError]]

\* playback through the asset protocol
startAudioPlaybackAsset(A, filePath) ==
    IF filePath = <<>> THEN setHelpMessage(A, "Audio not available.", TRUE)
    ELSE [A EXCEPT !.src = [kind |-> "asset", track |-> filePath], !.paused = FALSE]

\* startAudioPlayback up to its first await
startAudioPlayback(A, filePath) ==
    IF filePath = <<>> THEN setHelpMessage(A, "Audio not available.", TRUE)
    ELSE [setHelpMessage(A, "Loading", FALSE) EXCEPT !.pending[filePath] = @ + 1,
                                                      !.issued = Append(@, filePath)]

\* how a read_file_as_audio_url call and the audioEl.play() that follows it end:
\* a data URL that plays, a data URL and a rejected play(), a result that is no
\* string, a rejected call
AudioOutcomes == {"data", "dataNoPlay", "nodata", "reject"}

\* startAudioPlayback from its first await on
startAudioPlaybackResult(A, filePath, outcome) ==
    LET B == [A EXCEPT !.pending[filePath] = @ - 1]
    IN  CASE outcome = "reject" -> setHelpMessage(B, "Playback failed", TRUE)
          [] outcome = "nodata" -> setHelpMessage(B, "Playback failed: no data.", TRUE)
          [] outcome = "data" ->
                [setHelpMessage(B, "", FALSE) EXCEPT !.src = [kind |-> "data", track |-> filePath],
                                                     !.paused = FALSE]
          [] outcome = "dataNoPlay" ->
                [setHelpMessage(B, "Playback failed", TRUE)
                    EXCEPT !.src = [kind |-> "data", track |-> filePath], !.paused = TRUE]

\* onSelect of the playable list: a row is clicked
trackOnSelect(A, filePath) ==
    LET B == [A EXCEPT !.selectedTrackPath = filePath,
                       !.currentMusicFolder = orElse(dirname(filePath), @)]
        C == persist(persist(B, "last_selected_track", filePath),
                     "last_music_folder", dirname(filePath))
    IN  startAudioPlayback(C, filePath)

\* click on the play button; playOk: whether audioEl.play() resolves
playClick(A, playOk) ==
    IF A.selectedTrackPath = <<>>
    THEN setHelpMessage(A, "Select a track from the list first.", TRUE)
    ELSE IF A.paused
    THEN IF A.src.kind # "none"
         THEN IF playOk THEN [A EXCEPT !.paused = FALSE]
              ELSE setHelpMessage(A, "Playback failed", TRUE)
         ELSE startAudioPlayback(A, A.selectedTrackPath)
    ELSE [A EXCEPT !.paused = TRUE]

\* click on the stop button
stopClick(A) == setHelpMessage([A EXCEPT !.paused = TRUE], "", FALSE)

\* loadPlayableList calls awaiting their listing at one time
MaxListLoads == 2

\* what list_directory reports for a folder of the Music tree
musicFolderListing(folder) == IF folder = DIR_A THEN musicListing ELSE folderListing(folder)

\* the click listener of a row of the playable list
rowClick(A, filePath) == trackOnSelect([A EXCEPT !.selectedRow = filePath], filePath)

\* a load that selects the first row when the initial track is not listed
rowToSelectOrFirst(rows, initialSelectedPath) ==
    LET pathToSelect == trim(initialSelectedPath)
        found == {k \in 1..Len(rows) : rows[k] = pathToSelect}
    IN  IF pathToSelect # <<>> /\ found # {}
        THEN CHOOSE k \in found : \A j \in found : k <= j
        ELSE 1

\* index of the row selected after a load: the one of initialSelectedPath when
\* it is in the list, else none (0)
rowToSelect(rows, initialSelectedPath) ==
    LET pathToSelect == trim(initialSelectedPath)
        found == {k \in 1..Len(rows) : rows[k] = pathToSelect}
    IN  IF pathToSelect # <<>> /\ found # {}
        THEN CHOOSE k \in found : \A j \in found : k <= j
        ELSE 0

\* loadPlayableList up to its await
loadPlayableListStart(A, folderPath, initialSelectedPath) ==
    [A EXCEPT !.rows = <<>>,
              !.selectedRow = <<>>,
              !.listLoads = @ \cup {[folder |-> folderPath, initial |-> initialSelectedPath]}]

\* loadPlayableList from its await on
loadPlayableListResult(A, l, outcome) ==
    LET B == [A EXCEPT !.listLoads = @ \ {l}]
        files == playableFiles(musicFolderListing(l.folder))
    IN  IF outcome # "ok" \/ files = <<>>
        THEN [B EXCEPT !.rows = <<>>, !.selectedRow = <<>>]
        ELSE LET rows == pathsOf(files)
                 k == rowToSelect(rows, l.initial)
             IN  IF k = 0
                 THEN [B EXCEPT !.rows = rows, !.selectedRow = <<>>]
                 ELSE trackOnSelect([B EXCEPT !.rows = rows, !.selectedRow = rows[k]], rows[k])

\* onSelect of the Music tree
musicOnSelect(A, path, programmatic) ==
    LET B == [setHelpMessage(A, "", FALSE) EXCEPT !.currentMusicFolder = orElse(path, @)]
        C == IF ~programmatic THEN persist(B, "last_music_folder", path) ELSE B
        initialTrack == C.pendingRestoreSelectedTrack
    IN  loadPlayableListStart([C EXCEPT !.pendingRestoreSelectedTrack = <<>>], path, initialTrack)

\* the persistence load at startup and what the Music tab derives from it
musicStartup(A) ==
    LET lastMusicFolder == trim(A.store.last_music_folder)
        lastSelectedTrack == trim(A.store.last_selected_track)
        restore == IF lastSelectedTrack # <<>> THEN dirname(lastSelectedTrack) ELSE lastMusicFolder
    IN  [A EXCEPT !.pendingRestoreSelectedTrack = lastSelectedTrack,
                  !.musicFolderToRestore = restore,
                  !.currentMusicFolder = restore,
                  !.selectedTrackPath = <<>>,
                  !.restoring = TRUE,
                  !.rows = <<>>,
                  !.selectedRow = <<>>,
                  !.listLoads = {}]

(***************************************************************************)
(* The viewer window.  The viewer context (open_viewer_window,             *)
(* get_viewer_context, viewer_next, viewer_prev) is kept by the backend.   *)
(***************************************************************************)
\* invoke calls of the viewer awaiting their result at one time
MaxViewerReq == 2

noCtx == [paths |-> <<>>, index |-> 0]

\* open_viewer_window: the context becomes a copy of the sequence and the index
open_viewer_window(ctx, paths, startIndex) == [paths |-> paths, index |-> startIndex]

\* viewer_next: one step forward, the first item after the last
viewer_next(ctx) ==
    IF ctx.paths = <<>> THEN ctx
    ELSE [ctx EXCEPT !.index = (ctx.index + 1) % Len(ctx.paths)]

\* viewer_prev: one step back, the last item before the first
viewer_prev(ctx) ==
    IF ctx.paths = <<>> THEN ctx
    ELSE [ctx EXCEPT !.index = (ctx.index - 1 + Len(ctx.paths)) % Len(ctx.paths)]

\* the current item of the context as viewer_next and viewer_prev return it
currentEntry(ctx) == IF ctx.paths = <<>> THEN <<>> ELSE ctx.paths[ctx.index + 1]

\* the second element of the result of get_viewer_context as the caller provides
\* for it: the index of the context, a value that is no number, a number past
\* the end of the sequence
Reported == {"index", "none", "past"}

get_viewer_context(ctx, reported) ==
    [paths |-> ctx.paths,
     isNumber |-> reported # "none",
     index |-> IF reported = "past" THEN Len(ctx.paths) ELSE ctx.index]

\* paths, index: the variables of viewer.js; shown: the path updateDisplay was
\* last called with; placeholder: the text setPlaceholder last wrote; pending:
\* the invoke calls in flight; ev: the event the latest task handled
vwIdle ==
    [open |-> FALSE,
     ctx |-> noCtx,
     paths |-> <<>>,
     index |-> 0,
     shown |-> <<>>,
     placeholder |-> "",
     pending |-> <<>>,
     ev |-> [type |-> "none", call |-> "none", outcome |-> "none"]]

setPlaceholder(V, text) == [V EXCEPT !.shown = <<>>, !.placeholder = text]

updateDisplay(V, path) ==
    IF path = <<>> THEN setPlaceholder(V, "No image")
    ELSE [V EXCEPT !.shown = path, !.placeholder = ""]

\* the assignments both callers of get_viewer_context make, without the clamp
setContextNoClamp(V, result) ==
    LET i == IF result.isNumber THEN result.index ELSE 0
    IN  [V EXCEPT !.paths = result.paths, !.index = i]

\* paths = result[0]; index = ...; if (index >= paths.length) index = paths.length - 1
setContext(V, result) ==
    LET i == IF result.isNumber THEN result.index ELSE 0
    IN  [V EXCEPT !.paths = result.paths,
                  !.index = IF i >= Len(result.paths) THEN Len(result.paths) - 1 ELSE i]

\* paths[index] is a path; getName throws on anything else
hasCurrent(V) == V.index + 1 \in DOMAIN V.paths

showCurrent(V) == updateDisplay(V, V.paths[V.index + 1])

\* init: the callbacks of get_viewer_context
initResult(V, outcome, result) ==
    IF outcome = "reject" THEN setPlaceholder(V, "Failed to load context")
    ELSE IF result.paths = <<>> THEN setPlaceholder(V, "No images")
    ELSE IF hasCurrent(setContext(V, result)) THEN showCurrent(setContext(V, result))
    ELSE setPlaceholder(setContext(V, result), "Failed to load context")

\* the focus listener up to its invoke call
syncFromState(V) ==
    IF V.paths = <<>> THEN V ELSE [V EXCEPT !.pending = Append(@, "sync")]

\* the focus listener: the callbacks of get_viewer_context
syncResult(V, outcome, result) ==
    IF outcome = "reject" \/ result.paths = <<>> THEN V
    ELSE IF hasCurrent(setContext(V, result)) THEN showCurrent(setContext(V, result))
    ELSE setContext(V, result)

\* goPrev, goNext: the invoke call
go(V, direction) == [V EXCEPT !.pending = Append(@, direction)]

\* The callbacks of viewer_prev and viewer_next act on W: the viewer and the
\* persisted keys, which every window can write.
\* a viewer that records what it shows
onAdvancedPersist(W, outcome, path) ==
    IF outcome = "reject" \/ path = <<>> THEN W
    ELSE [vw |-> updateDisplay(W.vw, path),
          store |-> [W.store EXCEPT !.last_selected_file = path]]

\* a viewer that drops the result
onAdvancedIgnore(W, outcome, path) == W

\* goPrev, goNext: the callbacks of viewer_prev and viewer_next
onAdvanced(W, outcome, path) ==
    IF outcome = "reject" \/ path = <<>> THEN W
    ELSE [W EXCEPT !.vw = updateDisplay(W.vw, path)]

\* the viewer window opens: init runs to its invoke calls
openWindow(V) == IF V.open THEN V ELSE [V EXCEPT !.open = TRUE, !.pending = Append(@, "init")]

\* the main window asks for the viewer
openViewer(V, opened) ==
    IF opened = <<>> THEN V
    ELSE openWindow([V EXCEPT !.ctx = open_viewer_window(@, opened[1].paths, opened[1].startIndex)])

RemoveAt(q, i) == SubSeq(q, 1, i - 1) \o SubSeq(q, i + 1, Len(q))

\* p: the string; times: how often normalizePath was applied in a row; norm:
\* the last result; segments: the result of getPathSegments(p) once computed
pthIdle == [p |-> <<>>, times |-> 0, norm |-> <<>>, computed |-> FALSE, segments |-> <<>>]

(***************************************************************************)
(* The slideshow of the viewer window.                                     *)
(***************************************************************************)
isDigit(c) == c \in {"0", "1", "2", "3", "4", "5", "6", "7", "8", "9"}

digit(c) ==
    CASE c = "0" -> 0 [] c = "1" -> 1 [] c = "2" -> 2 [] c = "3" -> 3 [] c = "4" -> 4
      [] c = "5" -> 5 [] c = "6" -> 6 [] c = "7" -> 7 [] c = "8" -> 8 [] c = "9" -> 9

RECURSIVE digitPrefix(_)
digitPrefix(s) ==
    IF s # <<>> /\ isDigit(Head(s)) THEN <<Head(s)>> \o digitPrefix(Tail(s)) ELSE <<>>

RECURSIVE valueOf(_, _)
valueOf(ds, acc) == IF ds = <<>> THEN acc ELSE valueOf(Tail(ds), 10 * acc + digit(Head(ds)))

\* parseInt(s, 10): leading white space and a sign are skipped, the digits that
\* follow are read, whatever comes after them is ignored
parseInt(s) ==
    LET t == TrimLeft(s)
        signed == t # <<>> /\ Head(t) \in {"-", "+"}
        ds == digitPrefix(IF signed THEN Tail(t) ELSE t)
    IN  IF ds = <<>> THEN [isNaN |-> TRUE, n |-> 0]
        ELSE [isNaN |-> FALSE,
              n |-> IF signed /\ Head(t) = "-" THEN 0 - valueOf(ds, 0) ELSE valueOf(ds, 0)]

digitChar(d) == <<"0", "1", "2", "3", "4", "5", "6", "7", "8", "9">>[d + 1]

\* String(n) for a whole number n >= 0
RECURSIVE String(_)
String(n) == IF n < 10 THEN <<digitChar(n)>> ELSE String(n \div 10) \o <<digitChar(n % 10)>>

\* what the user types into the prompt, what the persisted key may hold
IntervalTexts ==
    {<<>>, <<"0">>, <<"1">>, <<"5">>, <<"3", "6", "0", "0">>, <<"3", "6", "0", "1">>,
     <<"a", "b", "c">>, <<"5", "a", "b", "c">>, <<"2", ".", "5">>, <<" ", "7">>, <<"-", "1">>}

\* slideshowIntervalMs; slideshowTimer: 0 for null, else the period the timer it
\* refers to was created with; live: the periods of the timers setInterval has
\* created and clearInterval has not cleared; label: the text of btnSlideshow
\* once written; persisted: the value of slideshow_interval_seconds; loading:
\* the get_persisted call of init is in flight; toggled: the button was clicked
ssIdle ==
    [slideshowIntervalMs |-> 3000,
     slideshowTimer |-> 0,
     live |-> <<>>,
     label |-> "unset",
     persisted |-> <<>>,
     loading |-> FALSE,
     toggled |-> FALSE,
     ev |-> [type |-> "none", text |-> <<>>]]

RECURSIVE removeOne(_, _)
removeOne(q, x) ==
    IF q = <<>> THEN <<>>
    ELSE IF Head(q) = x THEN Tail(q) ELSE <<Head(q)>> \o removeOne(Tail(q), x)

startSlideshow(S) ==
    IF S.slideshowTimer # 0 THEN S
    ELSE [S EXCEPT !.slideshowTimer = S.slideshowIntervalMs,
                   !.live = Append(@, S.slideshowIntervalMs),
                   !.label = "Slideshow OFF"]

\* a stop that forgets the timer without clearing it
stopSlideshowLeak(S) == [S EXCEPT !.slideshowTimer = 0, !.label = "Slideshow ON"]

stopSlideshow(S) ==
    IF S.slideshowTimer # 0
    THEN [S EXCEPT !.live = removeOne(@, S.slideshowTimer),
                   !.slideshowTimer = 0,
                   !.label = "Slideshow ON"]
    ELSE [S EXCEPT !.label = "Slideshow ON"]

toggleSlideshow(S) == IF S.slideshowTimer # 0 THEN stopSlideshow(S) ELSE startSlideshow(S)

validInterval(r) == ~r.isNaN /\ r.n >= 1 /\ r.n <= 3600

\* click on btnConfig: the prompt returns text, or null when it is cancelled;
\* written: whether set_persisted stores the value
configClick(S, cancelled, text, written) ==
    IF cancelled \/ ~validInterval(parseInt(text)) THEN S
    ELSE LET n == parseInt(text).n
             T == [S EXCEPT !.slideshowIntervalMs = n * 1000,
                            !.persisted = IF written THEN String(n) ELSE @]
         IN  IF T.slideshowTimer # 0 THEN startSlideshow(stopSlideshow(T)) ELSE T

\* init: the callbacks of get_persisted('slideshow_interval_seconds')
intervalLoaded(S, outcome) ==
    LET T == [S EXCEPT !.loading = FALSE]
    IN  IF outcome # "ok" \/ S.persisted = <<>> \/ ~validInterval(parseInt(S.persisted)) THEN T
        ELSE [T EXCEPT !.slideshowIntervalMs = parseInt(S.persisted).n * 1000]

(***************************************************************************)
(* Tasks of the event loop.                                                *)
(***************************************************************************)
\* createFolderTree has run: loadRoots() was called once
Init ==
    /\ tauri \in BOOLEAN
    /\ initialPath \in InitialPaths
    /\ LET S == loadRootsStart(Empty)
       IN  /\ nodes = S.nodes
           /\ treeState = S.treeState
           /\ treeRoots = S.treeRoots
           /\ loadedPaths = S.loadedPaths
           /\ sel = S.sel
           /\ inflight = S.inflight
           /\ nReq = S.nReq
           /\ loads = S.loads
           /\ errMsg = S.errMsg
           /\ emitted = S.emitted
    /\ img = imgIdle
    /\ app = appIdle
    /\ rsv = rsvIdle
    /\ vid = vidIdle
    /\ pane = paneIdle
    /\ aud = audIdle
    /\ vw = vwIdle
    /\ pth = pthIdle
    /\ ss = ssIdle

\* the user clicks the span of a folder node
Click(n) ==
    /\ Visible(Cur, n)
    /\ \E S \in {toggleExpand(onSelect(selectNode(Cur, n), nodes[n].path, FALSE), n)} :
           /\ nCalls(S) <= MaxCalls
           /\ Becomes(S)

\* the user clicks the "(click to retry)" li of a folder whose listing failed
RetryClick(n) ==
    /\ Visible(Cur, n)
    /\ nodes[n].ul = "error"
    /\ ~nodes[n].hidden
    /\ nCalls(Cur) < MaxCalls
    /\ \E S \in {loadChildrenStart([Cur EXCEPT !.loadedPaths = @ \ {nodes[n].path}],
                                    n, 0)} : Becomes(S)

\* the user clicks Refresh
RefreshClick ==
    /\ nCalls(Cur) < MaxCalls
    /\ \E S \in {loadRootsStart(Cur)} : Becomes(S)

\* get_folder_roots settles for a call of loadRoots
RootsSettle(l, outcome) ==
    /\ loads[l].pc = "roots"
    /\ \E S \in {loadRootsResult(Cur, l, outcome)} :
           /\ nCalls(S) <= MaxCalls
           /\ Becomes(S)

\* a list_directory call settles: loadChildren goes on, and with it the walk that awaits it
ListSettle(r, outcome) ==
    /\ r \in inflight
    /\ \E S \in {listSettled([Cur EXCEPT !.inflight = @ \ {r}], r, outcome)} :
           /\ nCalls(S) <= MaxCalls
           /\ Becomes(S)

Next ==
    \/ \E n \in DOMAIN nodes : Click(n)
    \/ \E n \in DOMAIN nodes : RetryClick(n)
    \/ RefreshClick
    \/ \E l \in DOMAIN loads, outcome \in Outcomes : RootsSettle(l, outcome)
    \/ \E r \in inflight, outcome \in Outcomes : ListSettle(r, outcome)

Spec == Init /\ [][Next]_vars

(***************************************************************************)
(* Tasks of the image displays.                                            *)
(***************************************************************************)
\* no folder tree has been created
TreeIdle ==
    /\ tauri = TRUE
    /\ initialPath = NoPath
    /\ nodes = Empty.nodes
    /\ treeState = Empty.treeState
    /\ treeRoots = Empty.treeRoots
    /\ loadedPaths = Empty.loadedPaths
    /\ sel = Empty.sel
    /\ inflight = Empty.inflight
    /\ nReq = Empty.nReq
    /\ loads = Empty.loads
    /\ errMsg = Empty.errMsg
    /\ emitted = Empty.emitted

InitImage ==
    /\ TreeIdle
    /\ img = imgIdle
    /\ app = appIdle
    /\ rsv = rsvIdle
    /\ vid = vidIdle
    /\ pane = paneIdle
    /\ aud = audIdle
    /\ vw = vwIdle
    /\ pth = pthIdle
    /\ ss = ssIdle

\* an Image entry is shown in a display
Show(d, throws) ==
    /\ img[d].view = "none"
    /\ img' = [img EXCEPT ![d] = showImage(d, throws)]
    /\ UNCHANGED <<treeVars, mainVars, ss>>

\* the browser finished loading img.src
ImgLoaded(d) ==
    /\ img[d].loading
    /\ img[d].src # "empty"
    /\ img' = [img EXCEPT ![d].loading = FALSE]
    /\ UNCHANGED <<treeVars, mainVars, ss>>

\* the browser failed to load img.src: the error event
ImgFailed(d) ==
    /\ img[d].loading
    /\ img[d].onerror = "chain" /\ tauri => img[d].reqs < MaxDataReq
    /\ img' = [img EXCEPT ![d] = onImgError(d, [img[d] EXCEPT !.loading = FALSE])]
    /\ UNCHANGED <<treeVars, mainVars, ss>>

\* read_file_as_data_url settles
DataSettle(d, ok) ==
    /\ img[d].pending > 0
    /\ img' = [img EXCEPT ![d] = IF ok THEN onDataUrl(d, img[d]) ELSE onDataRejected(d, img[d])]
    /\ UNCHANGED <<treeVars, mainVars, ss>>

NextImage ==
    \/ \E d \in Displays, throws \in BOOLEAN : Show(d, throws)
    \/ \E d \in Displays : ImgLoaded(d)
    \/ \E d \in Displays : ImgFailed(d)
    \/ \E d \in Displays, ok \in BOOLEAN : DataSettle(d, ok)

SpecImage == InitImage /\ [][NextImage]_vars

(***************************************************************************)
(* Tasks of the video displays.                                            *)
(***************************************************************************)
InitVideo ==
    /\ TreeIdle
    /\ img = imgIdle
    /\ app = appIdle
    /\ rsv = rsvIdle
    /\ vid = vidIdle
    /\ pane = paneIdle
    /\ aud = audIdle
    /\ vw = vwIdle
    /\ pth = pthIdle
    /\ ss = ssIdle

VideoStep(d, v) ==
    /\ vid' = [vid EXCEPT ![d] = v]
    /\ UNCHANGED <<treeVars, img, app, rsv, pane, aud, vw, pth, ss>>

\* a Video entry is shown in a display
ShowVideo(d, throws) ==
    /\ vid[d].view = "none"
    /\ VideoStep(d, showVideo(d, vid[d], throws))

\* the browser finished loading the src of the element
VideoLoaded(d) ==
    /\ vid[d].loading
    /\ vid[d].src # "empty"
    /\ VideoStep(d, [vid[d] EXCEPT !.loading = FALSE])

\* the browser failed to load the src of the element: the error event
VideoFailed(d) ==
    /\ vid[d].loading
    /\ VideoStep(d, onVideoError(d, vid[d]))

\* get_video_thumbnail_data_url settles
ThumbnailSettle(d, ok) ==
    /\ vid[d].pending > 0
    /\ VideoStep(d, IF ok THEN onThumbnailDataUrl(vid[d]) ELSE onThumbnailRejected(vid[d]))

NextVideo ==
    \/ \E d \in Displays, throws \in BOOLEAN : ShowVideo(d, throws)
    \/ \E d \in Displays : VideoLoaded(d)
    \/ \E d \in Displays : VideoFailed(d)
    \/ \E d \in Displays, ok \in BOOLEAN : ThumbnailSettle(d, ok)

SpecVideo == InitVideo /\ [][NextVideo]_vars

(***************************************************************************)
(* Tasks of a display that is given entries of every kind.                 *)
(***************************************************************************)
InitEntry ==
    /\ TreeIdle
    /\ img = imgIdle
    /\ vid = vidIdle
    /\ pane = paneIdle
    /\ aud = audIdle
    /\ vw = vwIdle
    /\ pth = pthIdle
    /\ ss = ssIdle
    /\ app = appIdle
    /\ rsv = rsvIdle

\* an entry is shown in an empty display
ShowEntry(d, name, throws) ==
    /\ pane[d].name = <<>>
    /\ LET e == showEntry(d, name, throws)
       IN  /\ pane' = [pane EXCEPT ![d] = [name |-> name, text |-> e.text]]
           /\ img' = [img EXCEPT ![d] = e.img]
           /\ vid' = [vid EXCEPT ![d] = e.vid]
    /\ UNCHANGED <<treeVars, app, rsv, aud, vw, pth, ss>>

NextEntry ==
    \/ \E d \in Displays, name \in EntryNames, throws \in BOOLEAN : ShowEntry(d, name, throws)
    \/ \E d \in Displays : ImgLoaded(d)
    \/ \E d \in Displays : ImgFailed(d)
    \/ \E d \in Displays, ok \in BOOLEAN : DataSettle(d, ok)
    \/ \E d \in Displays : VideoLoaded(d)
    \/ \E d \in Displays : VideoFailed(d)
    \/ \E d \in Displays, ok \in BOOLEAN : ThumbnailSettle(d, ok)

SpecEntry == InitEntry /\ [][NextEntry]_vars

(***************************************************************************)
(* Tasks of the Music tab.                                                 *)
(***************************************************************************)
InitAudio ==
    /\ TreeIdle
    /\ img = imgIdle
    /\ vid = vidIdle
    /\ pane = paneIdle
    /\ app = appIdle
    /\ rsv = rsvIdle
    /\ aud = audIdle
    /\ vw = vwIdle
    /\ pth = pthIdle
    /\ ss = ssIdle

\* a task of the Music tab handles event (type, track, outcome)
AudioStep(A, type, track, outcome) ==
    /\ aud' = [A EXCEPT !.ev = [type |-> type, track |-> track, outcome |-> outcome]]
    /\ UNCHANGED <<treeVars, img, app, rsv, vid, pane, vw, pth, ss>>

fresh(A) == [A EXCEPT !.issued = <<>>]

\* the user clicks a row of the playable list
TrackClick(t) ==
    /\ t \in Range(aud.rows)
    /\ aud.pending[t] < MaxAudioReq
    /\ AudioStep(rowClick(fresh(aud), t), "select", t, "none")

\* the user clicks the play button
PlayClick(playOk) ==
    /\ aud.selectedTrackPath # <<>> => aud.pending[aud.selectedTrackPath] < MaxAudioReq
    /\ AudioStep(playClick(fresh(aud), playOk), "play", aud.selectedTrackPath, "none")

\* the user clicks the stop button
StopClick ==
    AudioStep(stopClick(fresh(aud)), "stop", <<>>, "none")

\* the track ends
Ended ==
    /\ ~aud.paused
    /\ AudioStep([fresh(aud) EXCEPT !.paused = TRUE], "ended", <<>>, "none")

\* a read_file_as_audio_url call settles
AudioSettle(t, outcome) ==
    /\ aud.pending[t] > 0
    /\ AudioStep(startAudioPlaybackResult(fresh(aud), t, outcome), "settle", t, outcome)

\* set_persisted starts to end in another way
DbChangeAudio(o) ==
    /\ o # aud.db
    /\ AudioStep([fresh(aud) EXCEPT !.db = o], "none", <<>>, "none")

NextAudio ==
    \/ \E t \in Tracks : TrackClick(t)
    \/ \E playOk \in BOOLEAN : PlayClick(playOk)
    \/ StopClick
    \/ Ended
    \/ \E t \in Tracks, outcome \in AudioOutcomes : AudioSettle(t, outcome)
    \/ \E o \in DbOutcomes : DbChangeAudio(o)

SpecAudio == InitAudio /\ [][NextAudio]_vars

(***************************************************************************)
(* The Music tab starts with keys persisted by an earlier run.             *)
(***************************************************************************)
\* a track of folder a that was deleted after it was persisted
Z_MP3 == <<"z", ".", "m", "p", "3">>

PersistedMusicFolders == {<<>>, DIR_A}

\* the folders the user clicks in the Music tree
MusicFolders == {ROOT_C, DIR_A}

PersistedTracks ==
    {<<>>, DIR_A \o <<BS>> \o F_MP3, DIR_A \o <<BS>> \o Z_MP3, DIR_A \o <<BS>> \o D_TXT}

InitMusic ==
    /\ TreeIdle
    /\ img = imgIdle
    /\ vid = vidIdle
    /\ pane = paneIdle
    /\ app = appIdle
    /\ rsv = rsvIdle
    /\ vw = vwIdle
    /\ pth = pthIdle
    /\ ss = ssIdle
    /\ \E folder \in PersistedMusicFolders, track \in PersistedTracks, o \in {"ok", "fail"} :
           aud = musicStartup([audIdle EXCEPT !.store = [last_music_folder |-> folder,
                                                         last_selected_track |-> track],
                                              !.db = o])

\* the Music tree finishes loading its roots: the walk to the folder to
\* restore ends with its selection; without such a folder the first root is
\* selected
MusicTreeRestored ==
    /\ aud.restoring
    /\ Cardinality(aud.listLoads) < MaxListLoads
    /\ LET target == orElse(aud.musicFolderToRestore, ROOT_C)
       IN  AudioStep(musicOnSelect([fresh(aud) EXCEPT !.restoring = FALSE], target, TRUE),
                     "tree", <<>>, "none")

\* the user clicks a folder of the Music tree
MusicFolderClick(f) ==
    /\ Cardinality(aud.listLoads) < MaxListLoads
    /\ AudioStep(musicOnSelect(fresh(aud), f, FALSE), "folder", <<>>, "none")

\* the list_directory call of a loadPlayableList settles
PlayableListSettle(l, outcome) ==
    /\ l \in aud.listLoads
    /\ \A t \in Tracks : aud.pending[t] < MaxAudioReq
    /\ AudioStep(loadPlayableListResult(fresh(aud), l, outcome), "list", l.initial, outcome)

NextMusic ==
    \/ MusicTreeRestored
    \/ \E f \in MusicFolders : MusicFolderClick(f)
    \/ \E l \in aud.listLoads, outcome \in Outcomes : PlayableListSettle(l, outcome)
    \/ \E t \in Tracks : TrackClick(t)
    \/ \E t \in Tracks : AudioSettle(t, "data")

SpecMusic == InitMusic /\ [][NextMusic]_vars

(***************************************************************************)
(* Tasks of the viewer window.                                             *)
(***************************************************************************)
\* the longest sequence the viewer is opened with
MaxPaths == 3

ViewerFiles == <<B_JPG, C_MP4, Y_JPG, A_PNG>>

ViewerLists ==
    {[i \in 1..n |-> DIR_A \o <<BS>> \o ViewerFiles[i]] : n \in 1..MaxPaths}

\* the viewer has just been opened on a sequence, at one of its items
InitViewer ==
    /\ TreeIdle
    /\ img = imgIdle
    /\ vid = vidIdle
    /\ pane = paneIdle
    /\ app = appIdle
    /\ rsv = rsvIdle
    /\ aud = audIdle
    /\ \E paths \in ViewerLists : \E startIndex \in 0..(Len(paths) - 1) :
           vw = openViewer(vwIdle, onActivate(paths, startIndex))
    /\ pth = pthIdle
    /\ ss = ssIdle

\* a task of the viewer handles an event
ViewerStep(W, type, call, outcome) ==
    /\ vw' = [W.vw EXCEPT !.ev = [type |-> type, call |-> call, outcome |-> outcome]]
    /\ app' = [app EXCEPT !.store = W.store]
    /\ UNCHANGED <<treeVars, img, rsv, vid, pane, aud, pth, ss>>

world(V) == [vw |-> V, store |-> app.store]

\* the viewer window gets the focus
Focus ==
    /\ vw.open
    /\ Len(vw.pending) < MaxViewerReq
    /\ ViewerStep(world(syncFromState(vw)), "focus", "none", "none")

\* Prev or Next: a click, an arrow key or, for Next, a tick of the slideshow
Go(direction) ==
    /\ vw.open
    /\ Len(vw.pending) < MaxViewerReq
    /\ ViewerStep(world(go(vw, direction)), "go", direction, "none")

\* get_viewer_context settles for init or for the focus listener
ContextSettle(i, outcome, reported) ==
    /\ i \in 1..Len(vw.pending)
    /\ vw.pending[i] \in {"init", "sync"}
    /\ LET V == [vw EXCEPT !.pending = RemoveAt(@, i)]
           result == get_viewer_context(vw.ctx, reported)
       IN  ViewerStep(world(IF vw.pending[i] = "init" THEN initResult(V, outcome, result)
                                                     ELSE syncResult(V, outcome, result)),
                      "settle", vw.pending[i],
                      IF outcome = "reject" THEN outcome ELSE reported)

\* viewer_prev or viewer_next settles
AdvanceSettle(i, outcome) ==
    /\ i \in 1..Len(vw.pending)
    /\ vw.pending[i] \in {"next", "prev"}
    /\ LET ctx == IF outcome = "reject" THEN vw.ctx
                  ELSE IF vw.pending[i] = "next" THEN viewer_next(vw.ctx) ELSE viewer_prev(vw.ctx)
           V == [vw EXCEPT !.pending = RemoveAt(@, i), !.ctx = ctx]
       IN  ViewerStep(onAdvanced(world(V), outcome, currentEntry(ctx)),
                      "settle", vw.pending[i], outcome)

NextViewer ==
    \/ Focus
    \/ \E direction \in {"next", "prev"} : Go(direction)
    \/ \E i \in 1..MaxViewerReq, outcome \in {"ok", "reject"}, reported \in Reported :
          ContextSettle(i, outcome, reported)
    \/ \E i \in 1..MaxViewerReq, outcome \in {"ok", "reject"} : AdvanceSettle(i, outcome)

SpecViewer == InitViewer /\ [][NextViewer]_vars

(***************************************************************************)
(* Path strings handed to normalizePath and getPathSegments.               *)
(***************************************************************************)
\* the longest path, counted in the pieces below
MaxPathParts == 5

\* a drive, a colon, the two separators, a space, a name character
PathPieces == {<<"C", ":">>, <<":">>, <<BS>>, <<"/">>, <<" ">>, <<"a">>}

RECURSIVE Flatten(_)
Flatten(q) == IF q = <<>> THEN <<>> ELSE Head(q) \o Flatten(Tail(q))

PathStrings ==
    UNION {{Flatten(q) : q \in [1..n -> PathPieces]} : n \in 0..MaxPathParts}

InitPath ==
    /\ TreeIdle
    /\ img = imgIdle
    /\ vid = vidIdle
    /\ pane = paneIdle
    /\ aud = audIdle
    /\ vw = vwIdle
    /\ rsv = rsvIdle
    /\ app = appIdle
    /\ \E p \in PathStrings : pth = [pthIdle EXCEPT !.p = p]
    /\ ss = ssIdle

PathStep(P) ==
    /\ pth' = P
    /\ UNCHANGED <<treeVars, img, app, rsv, vid, pane, aud, vw, ss>>

\* normalizePath is applied to the string, then to its own result
Normalize ==
    /\ pth.times < 2
    /\ PathStep([pth EXCEPT !.times = @ + 1,
                            !.norm = normalizePath(IF pth.times = 0 THEN pth.p ELSE pth.norm)])

\* getPathSegments is applied to the string
Segments ==
    /\ ~pth.computed
    /\ PathStep([pth EXCEPT !.computed = TRUE, !.segments = getPathSegments(pth.p)])

NextPath == Normalize \/ Segments

SpecPath == InitPath /\ [][NextPath]_vars

(***************************************************************************)
(* Tasks of the slideshow.                                                 *)
(***************************************************************************)
\* the viewer opens: init has asked for the persisted interval
InitSlideshow ==
    /\ TreeIdle
    /\ img = imgIdle
    /\ vid = vidIdle
    /\ pane = paneIdle
    /\ aud = audIdle
    /\ vw = vwIdle
    /\ pth = pthIdle
    /\ rsv = rsvIdle
    /\ app = appIdle
    /\ \E text \in IntervalTexts : ss = [ssIdle EXCEPT !.persisted = text, !.loading = TRUE]

SlideshowStep(S, type, text) ==
    /\ ss' = [S EXCEPT !.ev = [type |-> type, text |-> text]]
    /\ UNCHANGED <<treeVars, img, app, rsv, vid, pane, aud, vw, pth>>

\* click on btnSlideshow
ToggleClick ==
    SlideshowStep([toggleSlideshow(ss) EXCEPT !.toggled = TRUE], "toggle", <<>>)

\* click on btnConfig and the answer to its prompt
ConfigClick(cancelled, text, written) ==
    SlideshowStep(configClick(ss, cancelled, text, written),
                  IF cancelled THEN "cancel" ELSE "config", text)

\* the get_persisted call of init settles
IntervalLoaded(outcome) ==
    /\ ss.loading
    /\ SlideshowStep(intervalLoaded(ss, outcome), "loaded", ss.persisted)

NextSlideshow ==
    \/ ToggleClick
    \/ \E cancelled \in BOOLEAN, text \in IntervalTexts, written \in BOOLEAN :
          ConfigClick(cancelled, text, written)
    \/ \E outcome \in {"ok", "reject"} : IntervalLoaded(outcome)

SpecSlideshow == InitSlideshow /\ [][NextSlideshow]_vars

(***************************************************************************)
(* Tasks of the resolver: a grid or a playable list is loaded for a folder.*)
(***************************************************************************)
InitResolve ==
    /\ TreeIdle
    /\ img = imgIdle
    /\ vid = vidIdle
    /\ pane = paneIdle
    /\ aud = audIdle
    /\ vw = vwIdle
    /\ pth = pthIdle
    /\ ss = ssIdle
    /\ app = appIdle
    /\ rsv \in {[rsvIdle EXCEPT !.folder = F] : F \in FolderContents}

\* loadThumbnails: list_directory returns listing l, the grid shows its files
LoadThumbnails(l) ==
    /\ rsv' = [rsv EXCEPT !.listing = l, !.files = gridFiles(l), !.shown = "grid"]
    /\ UNCHANGED <<treeVars, img, app, vid, pane, aud, vw, pth, ss>>

\* loadPlayableList: list_directory returns listing l, the list shows its files
LoadPlayableList(l) ==
    /\ rsv' = [rsv EXCEPT !.listing = l, !.files = playableFiles(l), !.shown = "list"]
    /\ UNCHANGED <<treeVars, img, app, vid, pane, aud, vw, pth, ss>>

NextResolve ==
    \/ \E l \in Listings(rsv.folder) : LoadThumbnails(l)
    \/ \E l \in Listings(rsv.folder) : LoadPlayableList(l)

SpecResolve == InitResolve /\ [][NextResolve]_vars

(***************************************************************************)
(* Tasks of the main window.                                               *)
(***************************************************************************)
InitApp ==
    /\ TreeIdle
    /\ img = imgIdle
    /\ vid = vidIdle
    /\ pane = paneIdle
    /\ aud = audIdle
    /\ vw = vwIdle
    /\ pth = pthIdle
    /\ ss = ssIdle
    /\ rsv = rsvIdle
    /\ app = appIdle

AppStep(A) ==
    /\ app' = A
    /\ UNCHANGED <<treeVars, img, rsv, vid, pane, aud, vw, pth, ss>>

\* the Photos tree finishes loading its roots: the walk to the folder to
\* restore ends with its selection; without such a folder the first root is
\* selected when no folder is selected yet
TreeRestored ==
    /\ app.running /\ app.restoring
    /\ Cardinality(app.gridLoads) < MaxGridLoads
    /\ LET A == [app EXCEPT !.restoring = FALSE, !.opened = <<>>, !.target = <<>>]
           target == orElse(app.folderToRestore, ROOT_C)
       IN  IF app.folderToRestore = <<>> /\ app.selected # <<>>
           THEN AppStep(A)
           ELSE AppStep(photosOnSelect([A EXCEPT !.selected = target], target, TRUE))

\* the user clicks a folder of the Photos tree
FolderClick(f) ==
    /\ app.running
    /\ Cardinality(app.gridLoads) < MaxGridLoads
    /\ AppStep(photosOnSelect([app EXCEPT !.selected = f, !.clicked = f, !.opened = <<>>, !.target = <<>>],
                              f, FALSE))

\* the list_directory call of a loadThumbnails settles
GridSettle(g, outcome) ==
    /\ app.running
    /\ g \in app.gridLoads
    /\ AppStep(loadThumbnailsResult([app EXCEPT !.opened = <<>>, !.target = <<>>], g, outcome))

\* the user clicks a cell of the grid
ThumbClick(k) ==
    /\ app.running
    /\ k \in 1..Len(app.cells)
    /\ AppStep(gridOnSelect([app EXCEPT !.opened = <<>>, !.target = <<>>], app.cells[k].path))

\* the dblclick event of a cell of the grid
ThumbDblClick(k) ==
    /\ app.running
    /\ k \in 1..Len(app.cells)
    /\ app' = [app EXCEPT !.opened = onActivate(app.cells[k].paths, app.cells[k].i),
                          !.target = app.cells[k].path]
    /\ vw' = [openViewer(vw, app'.opened) EXCEPT !.ev = [type |-> "open", call |-> "none", outcome |-> "none"]]
    /\ UNCHANGED <<treeVars, img, rsv, vid, pane, aud, pth, ss>>

\* the window closes: beforeunload
Close ==
    /\ app.running
    /\ AppStep([persistCurrentState(app) EXCEPT !.running = FALSE, !.opened = <<>>, !.target = <<>>])

\* the application is started again
Reopen ==
    /\ ~app.running
    /\ AppStep(startup(app))

NextApp ==
    \/ TreeRestored
    \/ \E f \in PhotoFolders : FolderClick(f)
    \/ \E g \in app.gridLoads, outcome \in Outcomes : GridSettle(g, outcome)
    \/ \E k \in 1..Len(app.cells) : ThumbClick(k)
    \/ \E k \in 1..Len(app.cells) : ThumbDblClick(k)
    \/ Close
    \/ Reopen

SpecApp == InitApp /\ [][NextApp]_vars

\* the main window after the user has clicked folder a, the tree has loaded
\* and the grid of a has loaded
appShowingA ==
    LET A1 == photosOnSelect([appIdle EXCEPT !.selected = DIR_A, !.clicked = DIR_A], DIR_A, FALSE)
        A2 == [A1 EXCEPT !.restoring = FALSE]
        g == CHOOSE g \in A2.gridLoads : TRUE
    IN  loadThumbnailsResult(A2, g, "ok")

InitWindows ==
    /\ TreeIdle
    /\ img = imgIdle
    /\ vid = vidIdle
    /\ pane = paneIdle
    /\ aud = audIdle
    /\ vw = vwIdle
    /\ pth = pthIdle
    /\ ss = ssIdle
    /\ rsv = rsvIdle
    /\ app = appShowingA

\* the folders the user goes to while the viewer is open
ViewedFolders == {ROOT_C, DIR_A}

\* the main window and the viewer it opens
NextWindows ==
    \/ \E f \in ViewedFolders : FolderClick(f)
    \/ \E g \in app.gridLoads, outcome \in Outcomes : GridSettle(g, outcome)
    \/ \E k \in 1..Len(app.cells) : ThumbClick(k)
    \/ \E k \in 1..Len(app.cells) : ThumbDblClick(k)
    \/ NextViewer

SpecWindows == InitWindows /\ [][NextWindows]_vars

(***************************************************************************)
(* The main window while set_persisted succeeds, fails or never settles.   *)
(***************************************************************************)
\* set_persisted starts to end in another way, for every caller
DbChange(o) ==
    /\ o # app.db
    /\ app' = [app EXCEPT !.db = o, !.opened = <<>>, !.target = <<>>]
    /\ aud' = [fresh(aud) EXCEPT !.db = o, !.ev = [type |-> "none", track |-> <<>>, outcome |-> "none"]]
    /\ UNCHANGED <<treeVars, img, rsv, vid, pane, vw, pth, ss>>

\* one run of the main window, from a loaded grid to its close
NextPersist ==
    \/ \E f \in ViewedFolders : FolderClick(f)
    \/ \E g \in app.gridLoads, outcome \in Outcomes : GridSettle(g, outcome)
    \/ \E k \in 1..Len(app.cells) : ThumbClick(k)
    \/ Close
    \/ \E t \in Tracks : TrackClick(t)
    \/ \E o \in DbOutcomes : DbChange(o)

SpecPersist == InitWindows /\ [][NextPersist]_vars

(***************************************************************************)
(* The main window starts with keys persisted by an earlier run.           *)
(***************************************************************************)
\* a file of folder a that was deleted after it was persisted
Z_JPG == <<"z", ".", "j", "p", "g">>

PersistedFolders == {<<>>, ROOT_C, DIR_A}

PersistedFiles == {<<>>, DIR_A \o <<BS>> \o B_JPG, DIR_A \o <<BS>> \o Z_JPG}

InitRestore ==
    /\ TreeIdle
    /\ img = imgIdle
    /\ vid = vidIdle
    /\ pane = paneIdle
    /\ aud = audIdle
    /\ vw = vwIdle
    /\ pth = pthIdle
    /\ ss = ssIdle
    /\ rsv = rsvIdle
    /\ \E folder \in PersistedFolders, file \in PersistedFiles, o \in DbOutcomes :
           app = startup([appIdle EXCEPT !.store = [last_folder |-> folder,
                                                    last_selected_file |-> file],
                                         !.db = o])

NextRestore ==
    \/ TreeRestored
    \/ \E f \in ViewedFolders : FolderClick(f)
    \/ \E g \in app.gridLoads, outcome \in Outcomes : GridSettle(g, outcome)
    \/ \E k \in 1..Len(app.cells) : ThumbClick(k)

SpecRestore == InitRestore /\ [][NextRestore]_vars

(***************************************************************************)
(* The restore walk to folder a while the user clicks nodes of the tree.   *)
(***************************************************************************)
\* calls of loadRoots and list_directory of one restore and the clicks made
\* during it
MaxRestoreCalls == 4

InitWalk ==
    /\ Init
    /\ tauri
    /\ initialPath = PATH_A

\* the user clicks the span of a folder node while the tree restores
ClickDuringRestore(n) ==
    /\ Visible(Cur, n)
    /\ \E S \in {toggleExpand(onSelect(selectNode(Cur, n), nodes[n].path, FALSE), n)} :
           /\ nCalls(S) <= MaxRestoreCalls
           /\ Becomes(S)

\* get_folder_roots returns the drives
RootsLoaded(l) ==
    /\ loads[l].pc = "roots"
    /\ Becomes(loadRootsResult(Cur, l, "ok"))

\* a list_directory call returns a result
ListReturned(r, outcome) ==
    /\ r \in inflight
    /\ \E S \in {listSettled([Cur EXCEPT !.inflight = @ \ {r}], r, outcome)} :
           /\ nCalls(S) <= MaxRestoreCalls
           /\ Becomes(S)

NextWalk ==
    \/ \E n \in DOMAIN nodes : ClickDuringRestore(n)
    \/ \E l \in DOMAIN loads : RootsLoaded(l)
    \/ \E r \in inflight, outcome \in {"ok", "fail"} : ListReturned(r, outcome)

SpecWalk == InitWalk /\ [][NextWalk]_vars

(***************************************************************************)
(* C1: a list_directory request for a node is never issued while an        *)
(* earlier request for that same node is still pending: no node ever has   *)
(* two listings in flight.                                                 *)
(***************************************************************************)
C1_OneListingInFlightPerNode ==
    \A n \in DOMAIN nodes : Cardinality({r \in inflight : r.node = n}) <= 1

(***************************************************************************)
(* C2: for one display of an Image entry at most one data-representation   *)
(* request (read_file_as_data_url) is ever made, whatever fails.           *)
(***************************************************************************)
C2_OneDataRequestPerDisplay == \A d \in Displays : img[d].reqs <= 1

\* the tree as the step leaves it
Post ==
    [nodes |-> nodes', treeState |-> treeState', treeRoots |-> treeRoots',
     loadedPaths |-> loadedPaths', sel |-> sel', inflight |-> inflight', nReq |-> nReq',
     loads |-> loads', errMsg |-> errMsg', emitted |-> emitted']

\* the li's in the document that carry the selected mark
selected(S) == S.sel \cap AttachedSet(S)

\* the one folder-changed notification of the fallback for the first root
firstRootNotified(S) ==
    <<[path |-> S.nodes[S.treeRoots[1]].path, programmatic |-> TRUE]>>

\* the walk of load l gives up in this step at an intermediate segment (below the
\* root, above the target)
abortsAtIntermediate(l) ==
    /\ loads[l].walk # "aborted"
    /\ loads'[l].walk = "aborted"
    /\ loads'[l].k >= 2
    /\ loads'[l].k < Len(getPathSegments(pathToRestore))

\* the abort neither throws nor reports: loadRoots returns, and the status line
\* changes only by what the root load or a failed listing of this step reported
abortIsSilent(l) ==
    /\ loads'[l].pc = "done"
    /\ loads[l].pc = "roots" => errMsg' = ""
    /\ loads[l].pc = "listing" =>
          \/ errMsg' = errMsg
          \/ nodes'[loads[l].visited[Len(loads[l].visited)]].ul = "error"

(***************************************************************************)
(* C3 as claimed: when the restore walk does not find an intermediate      *)
(* segment it aborts without throwing and without an error, and loadRoots     *)
(* finishes with the first root selected and the folder-changed callback   *)
(* invoked for it with programmatic = true.                                *)
(***************************************************************************)
C3_AbortSelectsFirstRoot ==
    [][\A l \in DOMAIN loads :
          abortsAtIntermediate(l) =>
              /\ abortIsSilent(l)
              /\ treeRoots' # <<>>
              /\ selected(Post) = {treeRoots'[1]}
              /\ emitted' = firstRootNotified(Post)]_vars

(***************************************************************************)
(* C3 amended: when the restore walk does not find an intermediate segment *)
(* it aborts without throwing and without an error; loadRoots then    *)
(* finishes with the first root selected and notified (programmatic =      *)
(* true), unless a node in the tree is already selected at that moment or  *)
(* the tree has no root at that moment, in which cases the selection stays *)
(* as it is and nothing is notified.                                       *)
(***************************************************************************)
C3_AbortSelectsFirstRootUnlessSelected ==
    [][\A l \in DOMAIN loads :
          abortsAtIntermediate(l) =>
              /\ abortIsSilent(l)
              /\ IF sel \cap AttachedSet(Post) = {} /\ treeRoots' # <<>>
                 THEN /\ selected(Post) = {treeRoots'[1]}
                      /\ emitted' = firstRootNotified(Post)
                 ELSE /\ sel' = sel
                      /\ emitted' = <<>>]_vars

\* a walk has aborted at an intermediate segment and the fallback has just selected
\* the first root
C3_Witness ==
    \E l \in DOMAIN loads :
        /\ loads[l].walk = "aborted" /\ loads[l].pc = "done"
        /\ loads[l].k >= 2 /\ loads[l].k < Len(getPathSegments(pathToRestore))
        /\ treeRoots # <<>>
        /\ selected(Cur) = {treeRoots[1]}
        /\ emitted = firstRootNotified(Cur)

\* the list_directory calls in flight that the walk of load l issued
walkRequests(l) == {r \in inflight : r.by = l}

\* the state of the walk of load l is consistent with the request r it waits for:
\* r is for the node found for segment k, the last one visited, and the nodes
\* visited are the nodes of segments 1..k, each the child of the one before
walkWaitsFor(l, r) ==
    LET w == loads[l]
        segments == getPathSegments(pathToRestore)
    IN  /\ w.pc = "listing"
        /\ w.req = r.id
        /\ w.k = Len(w.visited)
        /\ w.k <= Len(segments)
        /\ r.node = w.visited[w.k]
        /\ \A j \in 1..w.k :
              /\ pathEquals(nodes[w.visited[j]].path, segments[j])
              /\ nodes[w.visited[j]].parent = IF j = 1 THEN 0 ELSE w.visited[j - 1]

(***************************************************************************)
(* C4: the restore walk expands the segments strictly in order.  A walk    *)
(* has at most one list_directory request of its own in flight; while it   *)
(* has one, loadRoots is suspended on exactly that request, which is for   *)
(* the node of the segment at hand; and when the walk issues the request   *)
(* for a segment below the root, the listing of the segment above has      *)
(* completed: the parent shows its children and the node is one of them.   *)
(***************************************************************************)
C4_SegmentsInOrder ==
    /\ [](\A l \in DOMAIN loads :
            /\ Cardinality(walkRequests(l)) <= 1
            /\ \A r \in walkRequests(l) : walkWaitsFor(l, r))
    /\ [][\A r \in inflight' \ inflight :
            r.by # 0 =>
                LET w == loads'[r.by]
                IN  w.k >= 2 =>
                        /\ nodes'[w.visited[w.k - 1]].ul = "kids"
                        /\ r.node \in Range(nodes'[w.visited[w.k - 1]].kids)]_vars

\* the walk waits for the listing of the second segment, whose parent is listed
C4_Witness ==
    \E r \in inflight :
        /\ r.by # 0
        /\ nodes[r.node].parent # 0
        /\ nodes[nodes[r.node].parent].ul = "kids"
        /\ loads[r.by].k = 2

\* the walk of load l reaches the end of the path in this step
completes(l) == loads[l].walk # "completed" /\ loads'[l].walk = "completed"

(***************************************************************************)
(* C5: when the walk has found every segment and no listing failed, it     *)
(* ends with every segment node expanded, the terminal node the one        *)
(* selected node, and exactly one notification, for the restored path with *)
(* programmatic = true; the fallback does not select the first root.       *)
(***************************************************************************)
C5_WalkEndsAtTerminal ==
    [][\A l \in DOMAIN loads :
          LET visited == loads'[l].visited
          IN  (completes(l) /\ \A j \in DOMAIN visited : nodes'[visited[j]].ul # "error")
                  => /\ \A j \in DOMAIN visited : nodes'[visited[j]].expanded
                     /\ selected(Post) = {visited[Len(visited)]}
                     /\ emitted' = <<[path |-> pathToRestore, programmatic |-> TRUE]>>]_vars

\* loadRoots call l returns in this step
finishes(l) == loads[l].pc \in {"roots", "listing"} /\ loads'[l].pc = "done"

\* what the walk of load l notified in this step
walkNotified(l) ==
    IF completes(l) THEN <<[path |-> pathToRestore, programmatic |-> TRUE]>> ELSE <<>>

\* the selected marks when the fallback of load l looks at them: what the walk left
leftByWalk(l) ==
    IF completes(l)
    THEN (sel \ AttachedSet(Post)) \cup {loads'[l].visited[Len(loads'[l].visited)]}
    ELSE sel

(***************************************************************************)
(* C6: the default-selection fallback of a root load runs only in the step *)
(* in which that load returns, after its walk has completed or aborted and *)
(* with no expansion of the walk pending; it selects the first root (and   *)
(* notifies it as programmatic) if and only if no node in the tree is      *)
(* marked selected at that moment; so a root load that returns while the   *)
(* tree has a root leaves some node selected.                              *)
(***************************************************************************)
C6_FallbackAfterWalk ==
    [][/\ (\E i \in DOMAIN emitted' : emitted'[i].programmatic)
            => \E l \in DOMAIN loads : finishes(l)
       /\ \A l \in DOMAIN loads :
            finishes(l) =>
                /\ loads'[l].walk \in {"none", "completed", "aborted"}
                /\ \A r \in inflight' : r.by # l
                /\ IF leftByWalk(l) \cap AttachedSet(Post) = {} /\ treeRoots' # <<>>
                   THEN /\ selected(Post) = {treeRoots'[1]}
                        /\ emitted' = walkNotified(l) \o firstRootNotified(Post)
                   ELSE /\ sel' = leftByWalk(l)
                        /\ emitted' = walkNotified(l)
                /\ treeRoots' # <<>> => selected(Post) # {}]_vars

\* a load has returned after a walk that left nothing selected, and the fallback
\* has selected the first root
C6_Witness ==
    \E l \in DOMAIN loads :
        /\ loads[l].pc = "done"
        /\ loads[l].walk \in {"none", "aborted"}
        /\ treeRoots # <<>>
        /\ selected(Cur) = {treeRoots[1]}
        /\ emitted = firstRootNotified(Cur)

(***************************************************************************)
(* C7: stale listing results are discarded.  A result that arrives for a   *)
(* node that is collapsed is not applied to it nor made visible under it,  *)
(* and a result of a request issued before the one whose result the node   *)
(* already shows does not replace it.                                      *)
(***************************************************************************)
C7_StaleResultsDiscarded ==
    [][\A r \in inflight \ inflight' :
          LET old == nodes[r.node]
              new == nodes'[r.node]
          IN  /\ ~old.expanded =>
                    /\ new.ul = old.ul
                    /\ new.kids = old.kids
                    /\ new.hidden = old.hidden
              /\ old.applied > r.id =>
                    /\ new.applied = old.applied
                    /\ new.ul = old.ul]_vars

\* the list_directory calls issued in this step
issued == inflight' \ inflight

\* this step is a refresh: a new call of loadRoots
isRefresh == Len(loads') > Len(loads)

\* this step is a click on the retry line of node n
isRetry(n) ==
    /\ nodes[n].ul = "error"
    /\ nodes'[n].expanded = nodes[n].expanded
    /\ \E r \in issued : r.node = n

(***************************************************************************)
(* C8: expand is idempotent.  A loaded flag is dropped only by a refresh   *)
(* or a retry; a list_directory request is never issued for a node whose   *)
(* path is flagged loaded nor for a node that shows its loaded children;   *)
(* an expand of a node that is already expanded issues nothing (the only   *)
(* request for an expanded node is a retry), and one step issues at most   *)
(* one request for a node.  Two expands in immediate succession (by        *)
(* toggleExpand or expandNode, then by expandNode) of a collapsed node     *)
(* that is not loaded issue exactly one request.                           *)
(***************************************************************************)
C8_ExpandIdempotent ==
    /\ [](\A n \in DOMAIN nodes :
            (~nodes[n].expanded /\ nodes[n].path \notin loadedPaths) =>
                \A first \in {toggleExpand(Cur, n), expandNode(Cur, n, 0).st} :
                    /\ first.nReq = nReq + 1
                    /\ expandNode(first, n, 0).st = first)
    /\ [][/\ loadedPaths \ loadedPaths' # {}
               => isRefresh \/ \E n \in DOMAIN nodes : isRetry(n)
          /\ \A r \in issued :
               /\ nodes'[r.node].path \notin loadedPaths'
               /\ r.node \in DOMAIN nodes =>
                     /\ nodes[r.node].ul # "kids"
                     /\ nodes[r.node].expanded => isRetry(r.node)
               /\ \A q \in issued : q.node = r.node => q = r]_vars

\* a click has just expanded a node whose children were loaded before: they are
\* shown again and no listing is pending for it
C8_Witness ==
    \E n \in DOMAIN nodes :
        /\ Attached(Cur, n)
        /\ emitted = <<[path |-> nodes[n].path, programmatic |-> FALSE]>>
        /\ nodes[n].expanded
        /\ nodes[n].ul = "kids" /\ ~nodes[n].hidden
        /\ nodes[n].kids # <<>>
        /\ \A r \in inflight : r.node # n

\* node n, which shows its loaded children, is collapsed in this step
collapses(n) == nodes[n].ul = "kids" /\ nodes[n].expanded /\ ~nodes'[n].expanded

\* the collapse of n leaves the nodes, but for n's expanded flag and the visibility
\* of its children list, the loaded flags and the pending requests as they are
collapseKeepsChildren(n) ==
    /\ nodes' = [nodes EXCEPT ![n].expanded = FALSE, ![n].hidden = TRUE]
    /\ loadedPaths' = loadedPaths
    /\ treeRoots' = treeRoots
    /\ inflight' = inflight

\* the expand of a collapsed node that shows its loaded children shows them again
\* and issues nothing
reexpandIsFree(n) ==
    (nodes[n].ul = "kids" /\ ~nodes[n].expanded /\ nodes'[n].expanded) =>
        /\ nodes' = [nodes EXCEPT ![n].expanded = TRUE, ![n].hidden = FALSE]
        /\ loadedPaths' = loadedPaths
        /\ issued = {}

(***************************************************************************)
(* C9 as claimed: collapse only hides.  The collapse of a node that shows  *)
(* its loaded children changes the node's expanded flag and the visibility *)
(* of its children list and nothing else: the child nodes, the loaded      *)
(* flags and the selection stay as they are; and the next expand of the    *)
(* node shows the same children and issues no list_directory request.      *)
(***************************************************************************)
C9_CollapseOnlyHides ==
    [][\A n \in DOMAIN nodes :
          /\ collapses(n) => (collapseKeepsChildren(n) /\ sel' = sel /\ emitted' = <<>>)
          /\ reexpandIsFree(n)]_vars

(***************************************************************************)
(* C9 amended: the collapse of a node that shows its loaded children       *)
(* changes the node's expanded flag and the visibility of its children     *)
(* list, leaves the child nodes and the loaded flags as they are, and      *)
(* comes with the selection of the collapsed node and its folder-changed   *)
(* notification, made by the click that collapses it; the next expand of   *)
(* the node shows the same children and issues no list_directory request.  *)
(***************************************************************************)
C9_CollapseHidesAndSelects ==
    [][\A n \in DOMAIN nodes :
          /\ collapses(n) =>
                /\ collapseKeepsChildren(n)
                /\ sel' = (sel \ AttachedSet(Cur)) \cup {n}
                /\ emitted' = <<[path |-> nodes[n].path, programmatic |-> FALSE]>>
          /\ reexpandIsFree(n)]_vars

\* a click has just collapsed a node that shows its loaded children
C9_Witness ==
    \E n \in DOMAIN nodes :
        /\ Attached(Cur, n)
        /\ emitted = <<[path |-> nodes[n].path, programmatic |-> FALSE]>>
        /\ ~nodes[n].expanded
        /\ nodes[n].ul = "kids" /\ nodes[n].hidden
        /\ nodes[n].kids # <<>>
        /\ nodes[n].path \in loadedPaths

(***************************************************************************)
(* C10: after a refresh no loaded flag from before it is in effect: the    *)
(* first expansion of a root of the rebuilt tree (a root li that has no ul *)
(* yet) issues a list_directory request for it.                            *)
(***************************************************************************)
C10_FirstExpansionFetches ==
    [][\A n \in Range(treeRoots) :
          (~nodes[n].expanded /\ nodes[n].ul = "none" /\ nodes'[n].expanded)
              => \E r \in inflight' \ inflight : r.node = n]_vars

(***************************************************************************)
(* C11: no node of the tree is stuck expanded and childless.  A node that  *)
(* is expanded, has no child nodes and no listing in flight either shows   *)
(* the (empty) result of a successful listing of its own and is flagged    *)
(* loaded, or shows the retry line; and a node whose path is not flagged   *)
(* loaded has no child nodes.                                              *)
(***************************************************************************)
C11_NeverStuckChildless ==
    \A n \in AttachedSet(Cur) :
        /\ (nodes[n].expanded /\ nodes[n].kids = <<>> /\ \A r \in inflight : r.node # n)
              => \/ nodes[n].ul = "kids" /\ nodes[n].path \in loadedPaths
                 \/ nodes[n].ul = "error" /\ ~nodes[n].hidden
        /\ nodes[n].path \notin loadedPaths => nodes[n].kids = <<>>

\* the list_directory call r returned a failure result in this step
failedListing(r) ==
    /\ r \in inflight \ inflight'
    /\ nodes'[r.node].applied = r.id
    /\ nodes'[r.node].ul = "error"

\* the click listener of node n ran in this step and expanded n
clickExpands(n) ==
    /\ emitted' = <<[path |-> nodes[n].path, programmatic |-> FALSE]>>
    /\ ~nodes[n].expanded /\ nodes'[n].expanded

(***************************************************************************)
(* C12: a failure result of list_directory for a node leaves the node in   *)
(* the tree, not flagged loaded, showing the error line with its retry     *)
(* action and no children, and is reported through onError; the step       *)
(* issues no new listing for the node, and a listing for a node that shows *)
(* the error line is only issued by a retry click, by a click that         *)
(* re-expands the node or by a restore walk.                               *)
(***************************************************************************)
C12_ListingFailure ==
    [][/\ \A r \in inflight :
            failedListing(r) =>
                /\ treeRoots' = treeRoots
                /\ Attached(Cur, r.node) => Attached(Post, r.node)
                /\ nodes'[r.node].path \notin loadedPaths'
                /\ nodes'[r.node].kids = <<>>
                /\ errMsg' = "list_directory failed"
                /\ \A q \in issued : q.node # r.node
       /\ \A q \in issued :
            (q.node \in DOMAIN nodes /\ nodes[q.node].ul = "error") =>
                \/ isRetry(q.node)
                \/ clickExpands(q.node)
                \/ q.by # 0]_vars

\* the list_directory call r settled in this step without a result: it rejected
rejectedListing(r) ==
    /\ r \in inflight \ inflight'
    /\ nodes'[r.node].applied # r.id

(***************************************************************************)
(* C13: every I/O failure is caught where the call was issued.  No call of *)
(* loadRoots ever ends by a rejection; a rejected get_folder_roots leaves  *)
(* loadRoots running to its fallback; a rejected list_directory puts the   *)
(* node into the error state with the retry line, and a loadRoots whose    *)
(* walk awaited it goes on to its fallback and returns.                    *)
(***************************************************************************)
C13_RejectionsCaught ==
    /\ [](\A l \in DOMAIN loads : loads[l].pc # "threw")
    /\ [][/\ \A l \in DOMAIN loads :
               (loads[l].pc = "roots" /\ loads'[l].pc # "roots")
                   => loads'[l].pc \in {"listing", "done"}
          /\ \A r \in inflight :
               rejectedListing(r) =>
                   /\ nodes'[r.node].ul = "error"
                   /\ r.by # 0 => loads'[r.by].pc = "done"]_vars

(***************************************************************************)
(* C14: at most one node of the tree is marked selected.  A click on a     *)
(* folder node leaves exactly that node selected and invokes the           *)
(* folder-changed callback once, with the node's path; and the walk that   *)
(* selects its terminal node, a node of the tree, leaves exactly that node *)
(* selected.                                                               *)
(***************************************************************************)
C14_OneSelected ==
    /\ [](Cardinality(selected(Cur)) <= 1)
    /\ [][/\ \A n \in DOMAIN nodes :
               (Visible(Cur, n) /\ emitted' # <<>> /\ ~emitted'[1].programmatic
                   /\ emitted'[1].path = nodes[n].path)
                   => /\ selected(Post) = {n}
                      /\ Len(emitted') = 1
          /\ \A l \in DOMAIN loads :
               LET visited == loads'[l].visited
               IN  (completes(l) /\ Attached(Post, visited[Len(visited)]))
                       => selected(Post) = {visited[Len(visited)]}]_vars

\* a click has just moved the selection to the second root
C14_Witness ==
    /\ Len(treeRoots) >= 2
    /\ selected(Cur) = {treeRoots[2]}
    /\ emitted = <<[path |-> nodes[treeRoots[2]].path, programmatic |-> FALSE]>>

(***************************************************************************)
(* C15: last photos folder is restored.  After folder clicks and thumbnail *)
(* clicks, a close and a restart, with every persistence write applied,    *)
(* the folder handed to the Photos tree to restore and select is the       *)
(* folder the user clicked last.                                           *)
(***************************************************************************)
reopens == ~app.running /\ app'.running

C15_LastFolderRestored ==
    [][(reopens /\ app.clicked # <<>>) => app'.folderToRestore = app.clicked]_vars

(***************************************************************************)
(* C16: the files of a grid are exactly the entries of the listing that    *)
(* are not directories and whose extension, lower-cased, is an Image,      *)
(* Video, Heic or Pdf extension; each once; in case-insensitive order of   *)
(* name; and b.jpg, A.PNG, c.mp4, d.txt resolve to A.PNG, b.jpg, c.mp4.    *)
(***************************************************************************)
\* the extension of a file name: what follows its last ".", for a name that
\* holds one
hasExtension(name) == lastDot(name) > 0

extension(name) == SubSeq(name, lastDot(name) + 1, Len(name))

GridExtensions == IMAGE_EXT \cup VIDEO_EXT \cup HEIC_EXT \cup PDF_EXT

namesOf(files) == [i \in 1..Len(files) |-> files[i].name]

C16_ResolverOutput ==
    rsv.shown = "grid" =>
        /\ Range(rsv.files) = {e \in rsv.folder : /\ ~e.is_dir
                                                   /\ hasExtension(e.name)
                                                   /\ toLowerCase(extension(e.name)) \in GridExtensions}
        /\ Cardinality(Range(rsv.files)) = Len(rsv.files)
        /\ \A i, j \in 1..Len(rsv.files) :
              i < j => localeCompare(rsv.files[i].name, rsv.files[j].name) <= 0
        /\ rsv.folder = Scenario
              => namesOf(rsv.files) = <<A_PNG, B_JPG, C_MP4>>

(***************************************************************************)
(* C17: resolving an unchanged folder again yields the same sequence,      *)
(* whatever the order in which the listing returns the entries.            *)
(***************************************************************************)
C17_ResolverDeterministic ==
    [][(rsv.shown # "none" /\ rsv'.shown = rsv.shown /\ rsv'.folder = rsv.folder)
          => rsv'.files = rsv.files]_vars

(***************************************************************************)
(* C18: the extension sets Image, Video, Audio, Heic and Pdf are pairwise  *)
(* disjoint, so that no file name is given two kinds across the grid, the  *)
(* preview, the viewer and the playable list.                              *)
(***************************************************************************)
ExtOf(kind) ==
    CASE kind = "Image" -> IMAGE_EXT
      [] kind = "Video" -> VIDEO_EXT
      [] kind = "Audio" -> AUDIO_EXT
      [] kind = "Heic" -> HEIC_EXT
      [] kind = "Pdf" -> PDF_EXT

GridKinds == {"Image", "Video", "Heic", "Pdf"}

Kinds == GridKinds \cup {"Audio"}

kindsOf(name) == {k \in Kinds : getExt(name) \in ExtOf(k)}

WEBM == <<"w", "e", "b", "m">>

C18_KindsDisjoint ==
    /\ \A k1, k2 \in Kinds : k1 # k2 => ExtOf(k1) \cap ExtOf(k2) = {}
    /\ \A e \in rsv.folder : Cardinality(kindsOf(e.name)) <= 1

\* C18 as it holds: the four sets of the grid are pairwise disjoint and Audio
\* meets them in webm alone, which is a Video extension; a file shown in the
\* grid is shown as the one grid kind of its extension, and a file shown in
\* the playable list has an Audio extension.
C18_KindsDisjointPerList ==
    /\ \A k1, k2 \in GridKinds : k1 # k2 => ExtOf(k1) \cap ExtOf(k2) = {}
    /\ \A k \in GridKinds : AUDIO_EXT \cap ExtOf(k) = IF k = "Video" THEN {WEBM} ELSE {}
    /\ rsv.shown = "grid" =>
          \A i \in 1..Len(rsv.files) :
              kindsOf(rsv.files[i].name) \cap GridKinds = {gridKind(rsv.files[i].name)}
    /\ rsv.shown = "list" =>
          \A i \in 1..Len(rsv.files) : "Audio" \in kindsOf(rsv.files[i].name)

C18_Witness ==
    /\ rsv.shown = "list"
    /\ \E i \in 1..Len(rsv.files) :
          rsv.files[i].name = X_WEBM /\ kindsOf(X_WEBM) = {"Video", "Audio"}

(***************************************************************************)
(* C19: a double click on a grid cell hands open_viewer_window the paths   *)
(* of the cells of the grid in their displayed order, with a start index i *)
(* such that paths[i] is the path of the cell that was double-clicked.     *)
(***************************************************************************)
displayedPaths == [k \in 1..Len(app.cells) |-> app.cells[k].path]

C19_GridAndViewerAgree ==
    app.target # <<>> =>
        /\ Len(app.opened) = 1
        /\ app.opened[1].paths = displayedPaths
        /\ app.opened[1].startIndex \in 0..(Len(displayedPaths) - 1)
        /\ app.opened[1].paths[app.opened[1].startIndex + 1] = app.target
        /\ \E g \in PhotoFolders : displayedPaths = pathsOf(gridFiles(folderListing(g)))

C19_Witness ==
    /\ app.target = DIR_A \o <<BS>> \o B_JPG
    /\ app.opened = <<[paths |-> <<DIR_A \o <<BS>> \o A_PNG, DIR_A \o <<BS>> \o B_JPG>>,
                       startIndex |-> 1]>>

(***************************************************************************)
(* C20: video fallback chain.  A display of a Video entry first attempts   *)
(* the asset reference; when that fails to load, a data representation is  *)
(* requested; and a textual placeholder is shown only when that request    *)
(* or the data it returned has failed too.                                 *)
(***************************************************************************)
assetFails(d) == vid[d].src = "asset" /\ vid[d].loading /\ vid'[d] = onVideoError(d, vid[d])

C20_VideoFallbackChain ==
    [][\A d \in Displays :
          /\ (vid[d].view = "none" /\ vid'[d] # vid[d]) => vid'[d].src = "asset"
          /\ assetFails(d) => vid'[d].pending = vid[d].pending + 1
          /\ (vid[d].view # "placeholder" /\ vid'[d].view = "placeholder")
                => vid[d].pending > vid'[d].pending \/ vid[d].src = "data"]_vars

(***************************************************************************)
(* C21: a Heic or Pdf entry never attempts a load.  In the grid, the       *)
(* preview and the viewer such an entry is the fixed text at once, no      *)
(* element with an asset reference is created for it and no request for    *)
(* its data is ever issued.                                                *)
(***************************************************************************)
isTextOnly(name) == kindsOf(name) \cap {"Heic", "Pdf"} # {}

C21_TextOnlyNeverLoads ==
    \A d \in Displays :
        (pane[d].name # <<>> /\ isTextOnly(pane[d].name)) =>
            /\ pane[d].text = (IF "Heic" \in kindsOf(pane[d].name) THEN "HEIC" ELSE "PDF")
            /\ img[d] = noImg
            /\ vid[d] = noVid

C21_Witness ==
    /\ pane["viewer"] = [name |-> P_PDF_UPPER, text |-> "PDF"]
    /\ pane["grid"] = [name |-> H_HEIF, text |-> "HEIC"]
    /\ pane["preview"].name = B_JPG /\ img["preview"].src = "asset"

(***************************************************************************)
(* C22: audio playback never uses the asset reference.  Every start of     *)
(* playback of a track requests read_file_as_audio_url for it; the source  *)
(* of the audio element is only ever set from the result of such a         *)
(* request; and when the request fails or returns no data, the source is   *)
(* left as it was and an error message is shown.                           *)
(***************************************************************************)
startsPlayback ==
    \/ aud'.ev.type = "select"
    \/ aud'.ev.type = "play" /\ aud.selectedTrackPath # <<>> /\ aud.paused /\ aud.src = noSrc

requestFails == aud'.ev.type = "settle" /\ aud'.ev.outcome \in {"nodata", "reject"}

C22_AudioAlwaysDecoded ==
    /\ [](aud.src.kind \in {"none", "data"})
    /\ [][/\ startsPlayback =>
                 /\ aud'.issued = <<aud'.ev.track>>
                 /\ aud'.pending[aud'.ev.track] = aud.pending[aud'.ev.track] + 1
                 /\ aud'.src = aud.src
          /\ aud'.src # aud.src =>
                 /\ aud'.ev.type = "settle"
                 /\ aud'.ev.outcome \in {"data", "dataNoPlay"}
                 /\ aud'.src = [kind |-> "data", track |-> aud'.ev.track]
                 /\ aud.pending[aud'.ev.track] > 0
          /\ requestFails =>
                 /\ aud'.src = aud.src
                 /\ aud'.help.isError /\ aud'.help.text # ""]_vars

C22_Witness ==
    /\ aud.src = [kind |-> "data", track |-> DIR_A \o <<BS>> \o F_MP3]
    /\ aud.selectedTrackPath = DIR_A \o <<BS>> \o X_WEBM
    /\ aud.ev = [type |-> "settle", track |-> DIR_A \o <<BS>> \o X_WEBM, outcome |-> "nodata"]
    /\ aud.help = [text |-> "Playback failed: no data.", isError |-> TRUE]

(***************************************************************************)
(* C23: wrap-around closure.  In the viewer, Next after the last item      *)
(* shows the first and Previous before the first shows the last; Next      *)
(* applied as many times as the sequence is long comes back to the same    *)
(* item, and Next followed by Previous comes back to the same item.        *)
(***************************************************************************)
RECURSIVE nextTimes(_, _)
nextTimes(ctx, n) == IF n = 0 THEN ctx ELSE nextTimes(viewer_next(ctx), n - 1)

advanced(call) == vw'.ev = [type |-> "settle", call |-> call, outcome |-> "ok"]

C23_WrapAround ==
    /\ [](vw.ctx.paths # <<>> =>
            /\ nextTimes(vw.ctx, Len(vw.ctx.paths)) = vw.ctx
            /\ viewer_prev(viewer_next(vw.ctx)) = vw.ctx
            /\ currentEntry(viewer_prev(viewer_next(vw.ctx))) = currentEntry(vw.ctx))
    /\ [][LET n == Len(vw.ctx.paths)
              i == vw.ctx.index
          IN  /\ advanced("next") =>
                     vw'.shown = vw.ctx.paths[IF i = n - 1 THEN 1 ELSE i + 2]
              /\ advanced("prev") =>
                     vw'.shown = vw.ctx.paths[IF i = 0 THEN n ELSE i]]_vars

\* Next from the last of three items has shown the first
C23_Witness ==
    /\ Len(vw.paths) = 3 /\ vw.index = 2
    /\ vw.ctx.index = 0
    /\ vw.shown = vw.paths[1]
    /\ vw.ev = [type |-> "settle", call |-> "next", outcome |-> "ok"]

(***************************************************************************)
(* C24: whenever the viewer holds a non-empty sequence of paths, its index *)
(* is at least 0 and less than the length of the sequence: after init,     *)
(* after every re-synchronization on focus and after every Prev and Next,  *)
(* for every index get_viewer_context reports.                             *)
(***************************************************************************)
C24_IndexInRange ==
    vw.paths # <<>> => (vw.index >= 0 /\ vw.index < Len(vw.paths))

\* the focus listener was handed an index past the end of three paths
C24_Witness ==
    /\ vw.ev = [type |-> "settle", call |-> "sync", outcome |-> "past"]
    /\ Len(vw.paths) = 3 /\ vw.index = 2
    /\ vw.shown = vw.paths[3]

(***************************************************************************)
(* C25: viewer independence.  The viewer is handed a copy of the ordered   *)
(* paths and of the start index when it is opened; Prev and Next in the    *)
(* viewer change only the viewer's own position, never the selection of    *)
(* the grid of the main window, its ordered sequence or the persisted      *)
(* last_selected_file; and what the main window does afterwards does not   *)
(* change what the viewer holds.                                           *)
(***************************************************************************)
viewerMoves ==
    /\ vw' # vw
    /\ vw'.ev.type \in {"go", "settle"}
    /\ vw'.ev.call \in {"next", "prev"}

C25_ViewerIndependent ==
    [][/\ viewerMoves =>
              /\ app'.lastSelectedFilePath = app.lastSelectedFilePath
              /\ app'.cells = app.cells
              /\ app'.store = app.store
              /\ app'.currentPhotosFolder = app.currentPhotosFolder
              /\ vw'.paths = vw.paths
       /\ (vw'.ev.type = "open" /\ app'.opened # <<>>) =>
              /\ vw'.ctx.paths = displayedPaths
              /\ vw'.ctx.paths[vw'.ctx.index + 1] = app'.target
       /\ app' # app => (vw' = vw \/ vw'.ev.type = "open")]_vars

\* the viewer moved off the file that is selected and persisted in the main window
C25_Witness ==
    /\ vw.ev = [type |-> "settle", call |-> "next", outcome |-> "ok"]
    /\ Len(vw.paths) = 2
    /\ app.lastSelectedFilePath = vw.paths[1]
    /\ app.store.last_selected_file = vw.paths[1]
    /\ vw.shown = vw.paths[2]

(***************************************************************************)
(* C26: every time the viewer window regains the focus it fetches the      *)
(* viewer context again, and once the response has arrived its paths, its  *)
(* index and the item it displays are the fetched sequence and index,      *)
(* whatever it held before, also when it had opened with no sequence.      *)
(***************************************************************************)
C26_FocusResyncs ==
    [][/\ (vw' # vw /\ vw'.ev.type = "focus" /\ "init" \notin Range(vw.pending)) =>
              vw'.pending = Append(vw.pending, "sync")
       /\ vw'.ev = [type |-> "settle", call |-> "sync", outcome |-> "index"] =>
              /\ vw'.paths = vw.ctx.paths
              /\ vw'.index = vw.ctx.index
              /\ vw'.shown = currentEntry(vw.ctx)]_vars

(***************************************************************************)
(* C27: normalizePath is idempotent: applied to its own result it returns  *)
(* that result, for every path string made of separators, spaces, a drive  *)
(* colon and name characters.                                              *)
(***************************************************************************)
C27_NormalizeIdempotent ==
    [][(pth.times = 1 /\ pth'.times = 2) => pth'.norm = pth.norm]_vars

(***************************************************************************)
(* C28: for a path under a drive, getPathSegments returns the ancestors    *)
(* from the drive root to the path itself: the first segment is the drive  *)
(* root with its separator, each segment is the parent of the next, the    *)
(* last segment pathEquals the path, a bare drive root gives exactly one   *)
(* segment, and an empty or blank path gives none.                         *)
(***************************************************************************)
isSeparator(c) == c \in {BS, "/"}

driveRooted(p) ==
    LET t == trim(p)
    IN  Len(t) >= 3 /\ isLetter(t[1]) /\ t[2] = ":" /\ isSeparator(t[3])

bareRoot(p) ==
    LET t == trim(p)
    IN  driveRooted(p) /\ \A i \in 3..Len(t) : isSeparator(t[i])

\* child is parent followed by one name, after a separator if parent has none
isParentOf(parent, child) ==
    /\ Len(child) > Len(parent)
    /\ SubSeq(child, 1, Len(parent)) = parent
    /\ LET rest == SubSeq(child, Len(parent) + 1, Len(child))
           name == IF endsWithBackslash(parent) THEN rest ELSE Tail(rest)
       IN  /\ endsWithBackslash(parent) \/ Head(rest) = BS
           /\ name # <<>>
           /\ \A i \in 1..Len(name) : name[i] # BS

C28_Segments ==
    pth.computed =>
        LET segs == pth.segments
            n == Len(segs)
        IN  /\ trim(pth.p) = <<>> => segs = <<>>
            /\ driveRooted(pth.p) =>
                   /\ n >= 1
                   /\ segs[1] = <<trim(pth.p)[1], ":", BS>>
                   /\ \A i \in 1..(n - 1) : isParentOf(segs[i], segs[i + 1])
                   /\ pathEquals(segs[n], pth.p)
                   /\ bareRoot(pth.p) => n = 1

(***************************************************************************)
(* C29: missing or invalid persisted state is never an error.  When there  *)
(* is no path to restore, or the path to restore no longer exists, the     *)
(* first loadRoots never throws, and once the roots are there it finishes  *)
(* with the first root selected and with no error message other than the   *)
(* one of a folder listing that failed.                                    *)
(***************************************************************************)
noRestoreTarget == initialPath \in {NoPath, PATH_STALE}

C29_InvalidStateIsNoError ==
    /\ [](noRestoreTarget => loads[1].pc # "threw")
    /\ [][(noRestoreTarget /\ finishes(1) /\ treeRoots' # <<>>) =>
              /\ loads[1].pc = "roots" => errMsg' = ""
              /\ loads[1].pc = "listing" =>
                     \/ errMsg' = errMsg
                     \/ nodes'[loads[1].visited[Len(loads[1].visited)]].ul = "error"
              /\ selected(Post) = {treeRoots'[1]}]_vars

(***************************************************************************)
(* C30: persistence writes are best-effort.  Whether set_persisted         *)
(* succeeds, fails or never settles, every handler that persists runs to   *)
(* its end and leaves what the window remembers (current folder, selected  *)
(* file, selected track) and what it displays exactly as a successful      *)
(* write would.                                                            *)
(***************************************************************************)
\* everything of the Photos tab but the persisted keys
memory(A) == [A EXCEPT !.store = appIdle.store, !.db = "ok"]

\* everything of the Music tab but the persisted keys
musicMemory(A) == [A EXCEPT !.store = audIdle.store, !.db = "ok"]

C30_PersistBestEffort ==
    LET ok == [app EXCEPT !.db = "ok"]
        okMusic == [aud EXCEPT !.db = "ok"]
    IN  /\ \A f \in PhotoFolders :
               memory(photosOnSelect(app, f, FALSE)) = memory(photosOnSelect(ok, f, FALSE))
        /\ \A k \in 1..Len(app.cells) :
               memory(gridOnSelect(app, app.cells[k].path)) = memory(gridOnSelect(ok, app.cells[k].path))
        /\ \A g \in app.gridLoads :
               memory(loadThumbnailsResult(app, g, "ok")) = memory(loadThumbnailsResult(ok, g, "ok"))
        /\ memory(persistCurrentState(app)) = memory(persistCurrentState(ok))
        /\ \A t \in Tracks :
               musicMemory(trackOnSelect(aud, t)) = musicMemory(trackOnSelect(okMusic, t))

\* the writes of a thumbnail click, of a track click and of the close were lost;
\* the window had them all
C30_Witness ==
    /\ app.db # "ok"
    /\ app.currentPhotosFolder = DIR_A
    /\ app.lastSelectedFilePath = DIR_A \o <<BS>> \o A_PNG
    /\ app.store.last_selected_file = DIR_A \o <<BS>> \o B_JPG
    /\ ~app.running
    /\ aud.selectedTrackPath # <<>>
    /\ aud.store = audIdle.store

(***************************************************************************)
(* C31: restored file missing.  When the folder of the persisted           *)
(* last_selected_file exists but the file is not among its media entries,  *)
(* the folder is selected in the tree and the first entry of its sorted    *)
(* media sequence becomes the selected item.  In general a grid load whose *)
(* initial path is not in the list selects the first entry, and one whose  *)
(* initial path is in the list selects exactly that entry.                 *)
(***************************************************************************)
\* the load g fills the grid in this step
fillsGrid(g) == g \in app.gridLoads /\ g \notin app'.gridLoads /\ app'.cells # <<>>

mediaPaths(folder) == pathsOf(gridFiles(folderListing(folder)))

C31_WitnessFound ==
    /\ app.clicked = <<>>
    /\ app.cells # <<>>
    /\ app.lastSelectedFilePath = DIR_A \o <<BS>> \o B_JPG
    /\ app.cells[1].path # app.lastSelectedFilePath

(***************************************************************************)
(* C32: the slideshow interval stays in range.  In every reachable state   *)
(* it is a whole number of seconds from 1 to 3600 (3 by default); a value  *)
(* typed into the prompt or read from the persisted key that is not a      *)
(* number or lies outside 1..3600 leaves the interval, the running timer   *)
(* and the persisted value as they are.                                    *)
(***************************************************************************)
\* text without its sign
unsigned(text) ==
    LET t == trim(text)
    IN  IF t # <<>> /\ Head(t) \in {"-", "+"} THEN Tail(t) ELSE t

\* text is a decimal number: digits, and possibly a point and more digits
isNumber(text) ==
    LET whole == digitPrefix(unsigned(text))
        rest == SubSeq(unsigned(text), Len(whole) + 1, Len(unsigned(text)))
    IN  /\ whole # <<>>
        /\ \/ rest = <<>>
           \/ Head(rest) = "." /\ Len(rest) > 1 /\ \A i \in 2..Len(rest) : isDigit(rest[i])

\* a number from 1 to 3600
acceptable(text) ==
    /\ isNumber(text)
    /\ Head(trim(text)) # "-"
    /\ valueOf(digitPrefix(unsigned(text)), 0) >= 1
    /\ valueOf(digitPrefix(unsigned(text)), 0) <= 3600

C32_IntervalInRange ==
    /\ [](/\ ss.slideshowIntervalMs % 1000 = 0
          /\ ss.slideshowIntervalMs \div 1000 >= 1
          /\ ss.slideshowIntervalMs \div 1000 <= 3600)
    /\ [][(ss'.ev.type \in {"config", "loaded"} /\ ~acceptable(ss'.ev.text)) =>
              /\ ss'.slideshowIntervalMs = ss.slideshowIntervalMs
              /\ ss'.slideshowTimer = ss.slideshowTimer
              /\ ss'.live = ss.live
              /\ ss'.persisted = ss.persisted]_vars

(***************************************************************************)
(* C38: at most one slideshow timer exists at any time.  Whatever the      *)
(* sequence of toggles and interval changes, a start never adds a second   *)
(* timer, a stop leaves none, a valid interval change while the slideshow  *)
(* runs leaves exactly one, and once the button has been clicked its label *)
(* reads 'Slideshow OFF' exactly when a timer is running.                  *)
(***************************************************************************)
C38_OneTimer ==
    /\ [](/\ Len(ss.live) <= 1
          /\ ss.slideshowTimer = 0 <=> ss.live = <<>>
          /\ ss.slideshowTimer # 0 => ss.live = <<ss.slideshowTimer>>
          /\ ss.toggled => (ss.label = "Slideshow OFF" <=> ss.live # <<>>))
    /\ [][/\ (ss'.ev.type = "toggle" /\ ss.live # <<>>) => ss'.live = <<>>
          /\ (ss'.ev.type = "toggle" /\ ss.live = <<>>) => Len(ss'.live) = 1
          /\ (ss'.ev.type = "config" /\ ss.live # <<>>) => Len(ss'.live) = 1]_vars

\* the interval was changed to 5 s while the slideshow runs: one timer
C38_Witness ==
    /\ ss.ev = [type |-> "config", text |-> <<"5">>]
    /\ ss.toggled
    /\ ss.live = <<5000>>
    /\ ss.label = "Slideshow OFF"

(***************************************************************************)
(* C39: a running slideshow always advances at the configured interval.    *)
(* Whenever a timer is running its period is the current slideshow         *)
(* interval, also when the persisted interval arrives after the user has   *)
(* started the slideshow.                                                  *)
(***************************************************************************)
C39_PeriodIsInterval ==
    \A i \in 1..Len(ss.live) : ss.live[i] = ss.slideshowIntervalMs


(***************************************************************************)
(* C37: the playing track follows the latest selection.  When the audio    *)
(* data of a track arrives and no read_file_as_audio_url call is pending   *)
(* any more, the source of the audio element is the data of the track      *)
(* selected last, whatever the order in which the calls completed.         *)
(***************************************************************************)
noAudioPending == \A t \in Tracks : aud.pending[t] = 0

C37_PlaysLatestSelection ==
    (/\ aud.ev.type = "settle"
     /\ aud.ev.outcome \in {"data", "dataNoPlay"}
     /\ noAudioPending)
        => aud.src = [kind |-> "data", track |-> aud.selectedTrackPath]


(***************************************************************************)
(* C34: the grid follows the latest folder selection.  Once no listing is  *)
(* pending and the grid shows cells, the cells are the media files of the  *)
(* folder selected last, and the selected file and the persisted           *)
(* last_folder and last_selected_file refer to that folder, whatever the   *)
(* order in which the listings completed.                                  *)
(***************************************************************************)
gridAtRest == app.running /\ app.gridLoads = {} /\ app.selected # <<>> /\ app.cells # <<>>

C34_GridFollowsLatestFolder ==
    gridAtRest =>
        /\ [k \in 1..Len(app.cells) |-> app.cells[k].path] = mediaPaths(app.selected)
        /\ dirname(app.lastSelectedFilePath) = app.selected
        /\ app.store.last_folder = app.selected
        /\ dirname(app.store.last_selected_file) = app.selected


(***************************************************************************)
(* C36: programmatic selections do not rewrite persisted state.  As long   *)
(* as the user has clicked no folder, every grid load is the one of the    *)
(* restore walk or of the default selection: the step that starts it and   *)
(* the step that completes it leave last_folder and last_selected_file as  *)
(* they were persisted.                                                    *)
(***************************************************************************)
programmaticLoadStep ==
    /\ app.clicked = <<>>
    /\ app'.clicked = <<>>
    /\ app'.gridLoads # app.gridLoads

C36_ProgrammaticKeepsStore ==
    [][programmaticLoadStep => app'.store = app.store]_vars


(***************************************************************************)
(* C33: the restore of the playable list is defensive.  When a load of     *)
(* the music folder fills the list and its initial track is not among the  *)
(* rows, no row is selected, onSelect is not called and no playback        *)
(* starts; when it is among the rows, that row is selected and onSelect    *)
(* is called once for it.                                                  *)
(***************************************************************************)
fillsList(l) == l \in aud.listLoads /\ l \notin aud'.listLoads /\ aud'.rows # <<>>

C33_ListRestoreDefensive ==
    [][\A l \in aud.listLoads :
          fillsList(l) =>
              LET want == trim(l.initial)
              IN  /\ aud'.rows = pathsOf(playableFiles(musicFolderListing(l.folder)))
                  /\ IF want \in Range(aud'.rows)
                     THEN /\ aud'.selectedRow = want
                          /\ aud'.selectedTrackPath = want
                          /\ aud'.issued = <<want>>
                          /\ aud'.pending[want] = aud.pending[want] + 1
                     ELSE /\ aud'.selectedRow = <<>>
                          /\ aud'.selectedTrackPath = aud.selectedTrackPath
                          /\ aud'.issued = <<>>
                          /\ aud'.pending = aud.pending
                          /\ aud'.src = aud.src
                          /\ aud'.paused = aud.paused
                          /\ aud'.store = aud.store]_vars

C33_Witness ==
    /\ aud.ev = [type |-> "list", track |-> DIR_A \o <<BS>> \o Z_MP3, outcome |-> "ok"]
    /\ Len(aud.rows) = 2
    /\ aud.selectedRow = <<>>
    /\ aud.selectedTrackPath = <<>>
    /\ aud.issued = <<>>
    /\ aud.src = noSrc

C33_WitnessFound ==
    /\ aud.ev = [type |-> "list", track |-> DIR_A \o <<BS>> \o F_MP3, outcome |-> "ok"]
    /\ aud.selectedRow = DIR_A \o <<BS>> \o F_MP3
    /\ aud.issued = <<DIR_A \o <<BS>> \o F_MP3>>


(***************************************************************************)
(* C35: the restore is robust to user interaction.  Whatever nodes the     *)
(* user clicks while the walk to an existing folder is in progress, the    *)
(* walk gives up only at a node whose listing failed, and the loadRoots    *)
(* whose walk went through every segment ends with the terminal node, in   *)
(* the document, as the one selected node.                                 *)
(***************************************************************************)
walkEnds(l, how) == loads[l].walk # how /\ loads'[l].walk = how

terminalSelected ==
    \E n \in DOMAIN nodes' :
        /\ sel' \cap AttachedSet(Cur') = {n}
        /\ pathEquals(nodes'[n].path, pathToRestore)

C35_RestoreRobustToClicks ==
    [][\A l \in DOMAIN loads :
          /\ walkEnds(l, "completed") => terminalSelected
          /\ walkEnds(l, "aborted") =>
                 LET lastLi == loads'[l].visited[Len(loads'[l].visited)]
                 IN  nodes'[lastLi].ul = "error"]_vars

=============================================================================
